---- MODULE Spec2Model ----
(***************************************************************************)
(* Resume analysis pipeline: skill extraction, section location, years of  *)
(* experience, scoring and ranking.                                         *)
(*                                                                          *)
(* Numbers.  The program computes with floats; the model computes with     *)
(* exact rationals [n, d] and rounds half-to-even on the exact value, which *)
(* is what Python's round() does on every value that is not a decimal tie   *)
(* perturbed by binary representation.  The inputs below are chosen so that *)
(* the two agree on every value that is rounded.                            *)
(*                                                                          *)
(* Text.  A text is a sequence of tokens (words, or fixed phrases such as   *)
(* "Ensino Médio"); lower-casing and the substring tests of the source are  *)
(* tables over the token vocabulary.                                        *)
(***************************************************************************)
EXTENDS Integers, Sequences, FiniteSets, TLC

VARIABLES
    pc,          \* the operation that ran last
    weights,     \* ScoringEngine.config (category_weights, skill_weights)
    job,         \* the JobProfile handed to the scoring engine, or None
    cand,        \* one Candidate
    skillsResult,\* last return value of _calculate_skills_score
    subScore,    \* last return value of _calculate_experience_score or _calculate_education_score
    candidates,  \* the list handed to rank_candidates
    ranked,      \* the list rank_candidates returned
    skillsConfig,\* SkillExtractor.config (hard_skills, soft_skills, synonyms)
    lastCall,    \* the last call made on the candidate, with its argument
    extracted,   \* the list extract_from_text returned last
    sectionText, \* the lines of the text handed to a section locator
    sectionPatterns, \* SECTION_PATTERNS and SECTION_END_PATTERNS of the extractor
    sectionFound,\* what the section locator returned
    totalYears, \* what calculate_total_years returned
    highestLevel, \* what get_highest_degree_level returned
    eduBlock, \* the block handed to _parse_education_block
    eduYear, \* year of _parse_education_block
    eduStatus, \* status of _parse_education_block
    eduParsed, \* what _parse_education_block returned
    cvsDir, \* the files of the directory handed to load_candidates
    pending, \* the files load_candidates has still to visit
    loaded, \* the candidates load_candidates has appended so far
    loadOutcome, \* how load_candidates ended: the list it returned or the exception it raised
    extractor, \* the extractor class whose extract_from_candidate runs
    llm_client, \* self.llm_client of the extractor: None, or a client and what its call does
    text_variants, \* text_variants of extract_from_candidate
    tried, \* the texts _extract_with_regex has been run on, in order
    records, \* the local list experiences or educations of extract_from_candidate
    llm_calls, \* the texts handed to llm_client.call, in order
    extractOutcome, \* how extract_from_candidate ended
    entry, \* the entry point of the parsing stage: parse_all or ParserService
    parseOptions, \* extract_experience and extract_education as the caller passes them
    jobFile, \* the text of the job file
    pipelineOutcome, \* how the pipeline ended: what it returned or the exception it raised
    reqConfig, \* RequirementsExtractor.config (hard_skills, soft_skills)
    reqJob, \* the JobProfile handed to extract_from_job
    reqCalls, \* the number of calls of extract_from_job so far
    normOptions, \* lower, remove_acc and collapse_ws of the TextNormalizer
    normInput, \* the text handed to the first call of normalize
    normOutputs, \* what the successive calls of normalize returned, each call taking the result of the one before
    docFile, \* the path handed to extract_text: its name, whether it exists, and what the file holds
    docEnv, \* which of the optional packages pdfplumber and docx can be imported
    docOutcome, \* how extract_text ended
    contextScores, \* the score of the candidate under each job profile of the comparison
    stageCalls, \* the number of stage calls made so far
    configured_client, \* the llm_client the ExplainabilityEngine was constructed with
    validation, \* the ValidationResult of validate_candidate
    use_fallback, \* what should_use_llm_fallback returned
    max_retries, \* the max_retries of the decorator
    delay, \* the delay of the decorator
    backoff, \* the backoff of the decorator
    attempt, \* the loop variable of the wrapper
    current_delay, \* the delay of the next sleep
    last_exception, \* the exception caught last
    invocations, \* how each invocation of the wrapped function ended, in order
    sleeps, \* the durations handed to time.sleep, in order
    retryOutcome \* how the call of the wrapper ended

scoringVars == <<weights, job, skillsResult, subScore, candidates, ranked>>
skillVars == <<skillsConfig, lastCall, extracted>>
sectionVars == <<sectionText, sectionPatterns, sectionFound>>
yearsVars == <<totalYears>>
educationVars == <<highestLevel, eduBlock, eduYear, eduStatus, eduParsed>>
loaderVars == <<cvsDir, pending, loaded, loadOutcome>>
extractVars == <<extractor, llm_client, text_variants, tried, records, llm_calls, extractOutcome>>
pipelineVars == <<entry, parseOptions, jobFile, pipelineOutcome>>
requirementsVars == <<reqConfig, reqJob, reqCalls>>
normalizerVars == <<normOptions, normInput, normOutputs>>
documentVars == <<docFile, docEnv, docOutcome>>
contextVars == <<contextScores>>
stageVars == <<stageCalls, configured_client>>
validatorVars == <<validation, use_fallback>>
retryVars == <<max_retries, delay, backoff, attempt, current_delay, last_exception, invocations, sleeps, retryOutcome>>

vars == <<pc, cand, scoringVars, skillVars, sectionVars, yearsVars, educationVars, loaderVars, extractVars, pipelineVars, requirementsVars, normalizerVars, documentVars, contextVars, stageVars, validatorVars, retryVars>>

\* Optional values: None, or Some(x) holding x
None == <<>>
Some(x) == <<x>>
Get(o) == o[1]

\* the parts of the state a component that is not running leaves at None
NoScoring == weights = None /\ job = None /\ skillsResult = None /\ subScore = None
             /\ candidates = <<>> /\ ranked = None
NoSkills == skillsConfig = None /\ lastCall = None /\ extracted = None
NoSection == sectionText = None /\ sectionPatterns = None /\ sectionFound = None
NoEducation == highestLevel = None /\ eduBlock = None /\ eduYear = None /\ eduStatus = None /\ eduParsed = None
NoLoader == cvsDir = None /\ pending = None /\ loaded = None /\ loadOutcome = None
NoExtract == extractor = None /\ llm_client = None /\ text_variants = None /\ tried = None /\ records = None /\ llm_calls = None /\ extractOutcome = None
NoPipeline == entry = None /\ parseOptions = None /\ jobFile = None /\ pipelineOutcome = None
NoRequirements == reqConfig = None /\ reqJob = None /\ reqCalls = None
NoNormalizer == normOptions = None /\ normInput = None /\ normOutputs = None
NoDocument == docFile = None /\ docEnv = None /\ docOutcome = None
NoContext == contextScores = None
NoStages == stageCalls = None /\ configured_client = None
NoValidator == validation = None /\ use_fallback = None
NoRetry == max_retries = None /\ delay = None /\ backoff = None /\ attempt = None /\ current_delay = None /\ last_exception = None /\ invocations = None /\ sleeps = None /\ retryOutcome = None
NoYears == totalYears = None

----------------------------------------------------------------------------
(* Exact rationals *)

RECURSIVE GCD(_, _)
GCD(a, b) == IF b = 0 THEN a ELSE GCD(b, a % b)

Abs(x) == IF x < 0 THEN -x ELSE x

\* the rational n/d in lowest terms, d > 0
Rat(n, d) ==
    LET g == GCD(Abs(n), Abs(d))
        s == IF d < 0 THEN -1 ELSE 1
    IN  [n |-> (s * n) \div g, d |-> (s * d) \div g]

RInt(k) == [n |-> k, d |-> 1]
RAdd(a, b) == Rat(a.n * b.d + b.n * a.d, a.d * b.d)
RSub(a, b) == Rat(a.n * b.d - b.n * a.d, a.d * b.d)
RMul(a, b) == Rat(a.n * b.n, a.d * b.d)
RDivInt(a, k) == Rat(a.n, a.d * k)
RLe(a, b) == a.n * b.d <= b.n * a.d
RLt(a, b) == a.n * b.d < b.n * a.d
RMax(a, b) == IF RLe(a, b) THEN b ELSE a

Pow10(k) == IF k = 0 THEN 1 ELSE IF k = 1 THEN 10 ELSE 100

\* round(x, ndigits): nearest multiple of 10^-ndigits, ties to the even one
round(x, ndigits) ==
    LET m == x.n * Pow10(ndigits)
        q == m \div x.d
        r == m % x.d
        up == \/ 2 * r > x.d
              \/ (2 * r = x.d /\ q % 2 = 1)
    IN  Rat(IF up THEN q + 1 ELSE q, Pow10(ndigits))

RECURSIVE RSum(_)
RSum(s) == IF s = <<>> THEN RInt(0) ELSE RAdd(s[1], RSum(Tail(s)))

----------------------------------------------------------------------------
(* Text: str.lower() and the `term in text` substring test *)

\* str.lower() on one token
LowerOf(t) ==
    CASE t = "Python" -> "python"
      [] t = "SQL" -> "sql"
      [] t = "Desenvolvedor" -> "desenvolvedor"
      [] t = "Developer" -> "developer"
      [] t = "Analista" -> "analista"
      [] t = "Sênior" -> "sênior"
      [] t = "Pleno" -> "pleno"
      [] t = "Estagiário" -> "estagiário"
      [] t = "Backend" -> "backend"
      [] t = "Bacharelado" -> "bacharelado"
      [] t = "Mestrado" -> "mestrado"
      [] t = "Doutorado" -> "doutorado"
      [] t = "Ensino Médio" -> "ensino médio"
      [] t = "Técnico" -> "técnico"
      [] t = "PhD" -> "phd"
      [] t = "UFAL" -> "ufal"
      [] t = "MIT" -> "mit"
      [] t = "Estácio" -> "estácio"
      [] t = "Incompleto" -> "incompleto"
      [] t = "Cursando" -> "cursando"
      [] t = "Trancado" -> "trancado"
      [] t = "Concluído" -> "concluído"
      [] t = "Master" -> "master"
      [] t = "Tecnólogo" -> "tecnólogo"
      [] t = "Especialização" -> "especialização"
      [] t = "Ciência da Computação" -> "ciência da computação"
      [] t = "Direito" -> "direito"
      [] t = "Vaga" -> "vaga"
      [] t = "JavaScript" -> "javascript"
      [] t = "JS" -> "js"
      [] t = "Java Script" -> "java script"
      [] t = "ECMAScript" -> "ecmascript"
      [] t = "Comunicação" -> "comunicação"
      [] t = "Error" -> "error"
      [] t = "Acme" -> "acme"
      [] t = "Tenho" -> "tenho"
      [] t = "Maria" -> "maria"
      [] t = "Silva" -> "silva"
      [] t = "Experiência" -> "experiência"
      [] t = "Profissional" -> "profissional"
      [] t = "Formação" -> "formação"
      [] t = "Acadêmica" -> "acadêmica"
      [] t = "Requisitos" -> "requisitos"
      [] t = "Obrigatórios" -> "obrigatórios"
      [] t = "Desejáveis" -> "desejáveis"
      [] t = "Diferenciais:" -> "diferenciais:"
      [] t = "Python," -> "python,"
      [] t = "Java" -> "java"
      [] t = "Interpessoais" -> "interpessoais"
      [] t = "Bachelor" -> "bachelor"
      [] t = "High School" -> "high school"
      [] OTHER -> t

\* the keywords of the source that occur as substrings of a lower-case token
TermsIn(t) ==
    CASE t = "desenvolvedor" -> {"desenvolvedor"}
      [] t = "developer" -> {"developer"}
      [] t = "analista" -> {"analista"}
      [] t = "sênior" -> {"sênior"}
      [] t = "pleno" -> {"pleno"}
      [] t = "estagiário" -> {"estagiário"}
      [] t = "bacharelado" -> {"bacharelado"}
      [] t = "mestrado" -> {"mestrado"}
      [] t = "doutorado" -> {"doutorado"}
      [] t = "ensino médio" -> {"ensino médio"}
      [] t = "técnico" -> {"técnico"}
      [] t = "phd" -> {"phd"}
      [] t = "ufal" -> {"uf"}
      [] t = "incompleto" -> {"completo", "incompleto", "inc"}
      [] t = "completo" -> {"completo"}
      [] t = "cursando" -> {"cursando"}
      [] t = "trancado" -> {"trancado"}
      [] t = "concluído" -> {"concluído"}
      [] t = "previsto" -> {"previsto"}
      [] t = "ongoing" -> {"ongoing"}
      [] t = "master" -> {"master"}
      [] t = "bachelor" -> {"bachelor"}
      [] t = "high school" -> {"high school"}
      [] t = "tecnólogo" -> {"tecnólogo"}
      [] t = "especialização" -> {"especialização"}
      [] t = "ciência da computação" -> {"ciência da computação", "computação"}
      [] t = "error" -> {"error"}
      [] OTHER -> {}

\* text.lower()
Lower(text) == [i \in DOMAIN text |-> LowerOf(text[i])]

\* term in text   (text already lower-case)
In(term, text) == \E i \in DOMAIN text : term \in TermsIn(text[i])

----------------------------------------------------------------------------
(* ExperienceExtractor: durations and years of experience *)

\* datetime.now().year
CurrentYear == 2026

\* A duration is None or Some(d), d a sequence of these tokens ("" is <<>>).
DurationTokens == {"3", "1.24", "2019", "2021", "anos", "-", "atual", "ongoing"}

\* the token matches \d+(?:[.,]\d+)? as a whole
IsNumber(t) == t \in {"3", "1.24", "2019", "2021"}

\* float(value.replace(",", "."))
NumberValue(t) ==
    CASE t = "3" -> RInt(3)
      [] t = "1.24" -> Rat(124, 100)
      [] t = "2019" -> RInt(2019)
      [] t = "2021" -> RInt(2021)

\* the token starts with anos? or years?
IsUnit(t) == t \in {"anos"}

\* the token matches \d{4}
IsYear(t) == t \in {"2019", "2021"}

\* int(re.search(r"(\d{4})", date_str).group(1)), None when there is no match
extract_year(t) ==
    CASE t = "2019" -> Some(2019)
      [] t = "2021" -> Some(2021)
      [] OTHER -> None

\* the separator alternatives of DATE_PATTERN
IsSeparator(t) == t \in {"-"}

\* the non-year alternatives of DATE_PATTERN's end group
IsOpenEnd(t) == t \in {"atual", "present", "current", "ongoing"}

\* DURATION_PATTERN.search: index of the leftmost number followed by a unit, 0 if none
DURATION_PATTERN_search(d) ==
    LET hits == {i \in 1..(Len(d) - 1) : IsNumber(d[i]) /\ IsUnit(d[i + 1])}
    IN  IF hits = {} THEN 0 ELSE CHOOSE i \in hits : \A j \in hits : i <= j

\* DATE_PATTERN.search: index of the leftmost start-separator-end, 0 if none
DATE_PATTERN_search(d) ==
    LET hits == {i \in 1..(Len(d) - 2) :
                    /\ IsYear(d[i])
                    /\ IsSeparator(d[i + 1])
                    /\ (IsYear(d[i + 2]) \/ IsOpenEnd(d[i + 2]))}
    IN  IF hits = {} THEN 0 ELSE CHOOSE i \in hits : \A j \in hits : i <= j

\* the difference of the years as it is
years_as_is(years) == years

\* max(years, 0.5)
max_half(years) == RMax(years, Rat(1, 2))

\* _parse_duration_to_years
parse_duration_to_years(duration) ==
    IF duration = None \/ duration = Some(<<>>) THEN RInt(0)
    ELSE
    LET d == Get(duration)
        m == DURATION_PATTERN_search(d)
        k == DATE_PATTERN_search(d)
    IN  IF m # 0 THEN NumberValue(d[m])
        ELSE IF k # 0 THEN
            LET start == d[k]
                end == d[k + 2]
                start_year == extract_year(start)
                end_year == IF LowerOf(end) \in {"atual", "present", "current"}
                            THEN Some(CurrentYear)
                            ELSE extract_year(end)
            IN  IF start_year \notin {None, Some(0)} /\ end_year \notin {None, Some(0)}
                THEN max_half(RInt(Get(end_year) - Get(start_year)))
                ELSE RInt(1)
        ELSE RInt(1)

\* calculate_total_years
calculate_total_years(experiences) ==
    round(RSum([i \in DOMAIN experiences |->
                    parse_duration_to_years(experiences[i].duration)]), 1)

\* seniority by the thresholds on the years alone
infer_seniority_by_years(total_years, role) ==
    IF RLe(RInt(5), total_years) THEN "senior"
    ELSE IF RLe(RInt(2), total_years) THEN "mid"
    ELSE "junior"

\* infer_seniority
infer_seniority(total_years, role) ==
    LET role_lower == Lower(role) IN
    IF \E term \in {"sênior", "senior", "sr"} : In(term, role_lower) THEN "senior"
    ELSE IF \E term \in {"pleno", "mid", "middle"} : In(term, role_lower) THEN "mid"
    ELSE IF \E term \in {"júnior", "junior", "jr", "estagiário", "intern"} :
                In(term, role_lower) THEN "junior"
    ELSE IF RLe(RInt(5), total_years) THEN "senior"
    ELSE IF RLe(RInt(2), total_years) THEN "mid"
    ELSE "junior"

----------------------------------------------------------------------------
(* EducationExtractor: degree level and relevance *)

\* DEGREE_PATTERNS, in its insertion order
DEGREE_PATTERNS ==
    << <<"doutorado", {"doutorado", "doctorado", "phd", "ph.d", "doctorate",
                       "doctor of philosophy"}>>,
       <<"mestrado", {"mestrado", "master", "msc", "m.sc", "m.s", "ms",
                      "master of science", "master of engineering"}>>,
       <<"mba", {"mba", "master of business", "executive mba"}>>,
       <<"especialização", {"especialização", "pós-graduação", "postgraduate",
                            "especialista", "lato sensu", "certificate program"}>>,
       <<"bacharelado", {"bacharelado", "bachelor", "b.sc", "b.s", "b.a", "b.s.",
                         "b.a.", "graduação", "undergraduate", "superior completo"}>>,
       <<"licenciatura", {"licenciatura", "licentiate", "teaching degree", "b.ed"}>>,
       <<"tecnólogo", {"tecnólogo", "technology degree", "tecnologia", "cst",
                       "curso superior de tecnologia",
                       "associate of applied science", "aas"}>>,
       <<"técnico", {"técnico", "technical course", "ensino técnico", "vocational",
                     "trade school"}>>,
       <<"ensino médio", {"ensino médio", "high school", "secondary", "secundário",
                          "highschool"}>> >>

\* the categories of DEGREE_PATTERNS that have a keyword in the text
DegreeTypesIn(text_lower) ==
    {i \in DOMAIN DEGREE_PATTERNS :
        \E pattern \in DEGREE_PATTERNS[i][2] : In(pattern, text_lower)}

\* _extract_degree: degree_type, the first category with a keyword in the text
degree_type(text) ==
    LET hits == DegreeTypesIn(Lower(text))
    IN  IF hits = {} THEN None
        ELSE Some(DEGREE_PATTERNS[CHOOSE i \in hits : \A j \in hits : i <= j][1])

\* _contains_degree
contains_degree(text) == DegreeTypesIn(Lower(text)) # {}

\* level_map, in its insertion order
level_map ==
    << <<"doutorado", 6>>, <<"mestrado", 5>>, <<"mba", 5>>,
       <<"especialização", 4>>, <<"bacharelado", 3>>, <<"licenciatura", 3>>,
       <<"tecnólogo", 2>>, <<"técnico", 1>>, <<"ensino médio", 0>> >>

RELEVANT_AREAS ==
    {"ciência da computação", "computer science", "computação",
     "engenharia de software", "software engineering",
     "sistemas de informação", "information systems",
     "análise e desenvolvimento", "systems analysis",
     "engenharia da computação", "computer engineering",
     "tecnologia da informação", "information technology",
     "ciência de dados", "data science",
     "inteligência artificial", "artificial intelligence"}

Max(a, b) == IF a >= b THEN a ELSE b

\* the level of the first level_map key found in the degree, 0 when none is
DegreeLevel(degree_lower) ==
    LET hits == {i \in DOMAIN level_map : In(level_map[i][1], degree_lower)}
    IN  IF hits = {} THEN 0
        ELSE level_map[CHOOSE i \in hits : \A j \in hits : i <= j][2]

RECURSIVE get_highest_degree_level(_)
get_highest_degree_level(educations) ==
    IF educations = <<>> THEN 0
    ELSE Max(DegreeLevel(Lower(educations[Len(educations)].degree)),
             get_highest_degree_level(SubSeq(educations, 1, Len(educations) - 1)))

has_relevant_degree(educations) ==
    \E i \in DOMAIN educations :
        \E area \in RELEVANT_AREAS : In(area, Lower(educations[i].degree))

----------------------------------------------------------------------------
(* EducationExtractor: year, status and fields of one block *)

\* the tokens of a block that are runs of four digits, with their value
EducationYearValue(t) ==
    CASE t = "1950" -> 1950
      [] t = "2015" -> 2015
      [] t = "2019" -> 2019
      [] t = "2030" -> 2030
      [] t = "2040" -> 2040
      [] OTHER -> 0

IsYearToken(t) == EducationYearValue(t) # 0

\* the least and the greatest element of a non-empty set of positions
First(S) == CHOOSE i \in S : \A j \in S : i <= j
Last(S) == CHOOSE i \in S : \A j \in S : j <= i

\* the position of the end token when DATE_RANGE_PATTERN matches with its start
\* year at position i, 0 when it does not: a year, a separator, then a year
\* (separators may precede it) or one of atual, present, current, ongoing
RangeEndFrom(text, i) ==
    IF ~(i + 2 <= Len(text) /\ IsYearToken(text[i]) /\ text[i + 1] = "-") THEN 0
    ELSE LET ends == {j \in (i + 2)..Len(text) :
                        /\ IsYearToken(text[j])
                        /\ \A k \in (i + 2)..(j - 1) : text[k] = "-"}
         IN  IF ends # {} THEN First(ends)
             ELSE IF text[i + 2] \in {"atual", "present", "current", "ongoing"}
             THEN i + 2
             ELSE 0

\* DATE_RANGE_PATTERN.search(text).group("end")
DATE_RANGE_PATTERN_search(text) ==
    LET starts == {i \in DOMAIN text : RangeEndFrom(text, i) # 0}
    IN  IF starts = {} THEN None ELSE Some(text[RangeEndFrom(text, First(starts))])

\* EXPECTED_YEAR_PATTERN.search(text).group(1): the year that follows a marker
\* with no digit in between
EXPECTED_YEAR_PATTERN_search(text) ==
    LET markers == {i \in DOMAIN text :
                      /\ text[i] \in {"expected", "previsto", "prevista"}
                      /\ \E j \in (i + 1)..Len(text) : IsYearToken(text[j])}
    IN  IF markers = {} THEN None
        ELSE Some(text[First({j \in (First(markers) + 1)..Len(text) :
                                IsYearToken(text[j])})])

\* a year token whatever its value
sanitize_any_year(token) ==
    IF token # None /\ IsYearToken(Get(token)) THEN token ELSE None

\* _sanitize_year_token
sanitize_year_token(token) ==
    IF token = None THEN None
    ELSE IF ~IsYearToken(Get(token)) THEN None
    ELSE IF 1960 <= EducationYearValue(Get(token))
            /\ EducationYearValue(Get(token)) <= CurrentYear + 5
    THEN token
    ELSE None

\* EducationExtractor._extract_year
education_extract_year(text) ==
    LET range_year == sanitize_year_token(DATE_RANGE_PATTERN_search(text))
        expected_year == sanitize_year_token(EXPECTED_YEAR_PATTERN_search(text))
        bare == {i \in DOMAIN text : sanitize_year_token(Some(text[i])) # None}
    IN  IF range_year # None THEN range_year
        ELSE IF expected_year # None THEN expected_year
        ELSE IF bare # {} THEN Some(text[Last(bare)])
        ELSE None

\* STATUS_PATTERNS, in its insertion order
STATUS_PATTERNS ==
    << <<"completed", {"completo", "concluído", "concluded", "completed",
                       "formado", "graduated", "finished"}>>,
       <<"in_progress", {"cursando", "em andamento", "in progress", "current",
                         "presente", "ongoing", "currently enrolled", "studying",
                         "expected", "previsto"}>>,
       <<"incomplete", {"incompleto", "trancado", "incomplete", "discontinued",
                        "dropped", "paused"}>> >>

\* the classes of STATUS_PATTERNS that have a keyword in the text
StatusClassesIn(text_lower) ==
    {i \in DOMAIN STATUS_PATTERNS :
        \E pattern \in STATUS_PATTERNS[i][2] : In(pattern, text_lower)}

\* _extract_status
extract_status(text) ==
    LET hits == StatusClassesIn(Lower(text))
        year_str == education_extract_year(text)
    IN  IF hits # {} THEN STATUS_PATTERNS[First(hits)][1]
        ELSE IF year_str # None
        THEN IF EducationYearValue(Get(year_str)) <= CurrentYear
             THEN "completed" ELSE "in_progress"
        ELSE "completed"

INSTITUTION_HINTS ==
    {"universidade", "university", "faculdade", "college", "instituto",
     "institute", "school", "academy", "polytechnic", "centro universitário",
     "ifal", "uf", "puc", "federal"}

\* the ASCII letters of a token: how many are upper case, how many lower case
AsciiLetters(t) ==
    CASE t = "UFAL" -> [upper |-> 4, lower |-> 0]
      [] t = "MIT" -> [upper |-> 3, lower |-> 0]
      [] t = "Estácio" -> [upper |-> 1, lower |-> 5]
      [] t = "Bacharelado" -> [upper |-> 1, lower |-> 10]
      [] t = "Direito" -> [upper |-> 1, lower |-> 6]
      [] t = "Incompleto" -> [upper |-> 1, lower |-> 9]
      [] t = "Cursando" -> [upper |-> 1, lower |-> 7]
      [] t = "Trancado" -> [upper |-> 1, lower |-> 7]
      [] t = "Concluído" -> [upper |-> 1, lower |-> 7]
      [] t = "atual" -> [upper |-> 0, lower |-> 5]
      [] t = "previsto" -> [upper |-> 0, lower |-> 8]
      [] OTHER -> [upper |-> 0, lower |-> 0]

RECURSIVE SumOver(_, _)
SumOver(f, S) ==
    IF S = {} THEN 0 ELSE LET i == CHOOSE i \in S : TRUE IN f[i] + SumOver(f, S \ {i})

\* the tokens at the positions that are kept, in their order
RECURSIVE KeepAt(_, _)
KeepAt(text, keep) ==
    IF text = <<>> THEN <<>>
    ELSE KeepAt(SubSeq(text, 1, Len(text) - 1), keep)
         \o (IF Len(text) \in keep THEN <<text[Len(text)]>> ELSE <<>>)

\* _extract_institution on the lines of a one-line block
extract_institution(line) ==
    IF \E term \in INSTITUTION_HINTS : In(term, Lower(line))
    THEN LET cleaned == KeepAt(line, {i \in DOMAIN line : ~IsYearToken(line[i])})
             n == Len(cleaned)
         IN  IF n > 0 /\ cleaned[n] \in {"|", "-"}
             THEN Some(SubSeq(cleaned, 1, n - 1)) ELSE Some(cleaned)
    ELSE LET upper == SumOver([i \in DOMAIN line |-> AsciiLetters(line[i]).upper],
                              DOMAIN line)
             lower == SumOver([i \in DOMAIN line |-> AsciiLetters(line[i]).lower],
                              DOMAIN line)
         IN  IF lower = 0 /\ upper >= 2 /\ upper <= 6 THEN Some(line) ELSE None

\* re.split(r"\s*[|•]\s*", line): the runs of tokens between the bars
RECURSIVE SplitAtBars(_)
SplitAtBars(line) ==
    LET bars == {i \in DOMAIN line : line[i] = "|"}
    IN  IF bars = {} THEN <<line>>
        ELSE <<SubSeq(line, 1, First(bars) - 1)>>
             \o SplitAtBars(SubSeq(line, First(bars) + 1, Len(line)))

\* part.strip("-• ")
StripDashes(part) ==
    LET kept == {i \in DOMAIN part : part[i] # "-"}
    IN  IF kept = {} THEN <<>> ELSE SubSeq(part, First(kept), Last(kept))

\* structured_parts of _parse_education_block
structured_parts(line) ==
    LET split == SplitAtBars(line)
        filled == KeepAt(split, {i \in DOMAIN split : split[i] # <<>>})
    IN  [i \in DOMAIN filled |-> StripDashes(filled[i])]

\* " | ".join(parts), and " ".join(parts)
RECURSIVE JoinWith(_, _)
JoinWith(parts, sep) ==
    IF parts = <<>> THEN <<>>
    ELSE IF Len(parts) = 1 THEN parts[1]
    ELSE parts[1] \o sep \o JoinWith(Tail(parts), sep)

\* re.sub(r"\|\s*\d{4}", "", cleaned)
RECURSIVE RemoveBarYear(_)
RemoveBarYear(text) ==
    IF Len(text) < 2 THEN text
    ELSE IF text[1] = "|" /\ IsYearToken(text[2])
    THEN RemoveBarYear(SubSeq(text, 3, Len(text)))
    ELSE <<text[1]>> \o RemoveBarYear(Tail(text))

\* re.sub(r"\d{4}\s*[-–—]\s*\d{4}", "", cleaned)
RECURSIVE RemoveYearRange(_)
RemoveYearRange(text) ==
    IF Len(text) < 3 THEN text
    ELSE IF IsYearToken(text[1]) /\ text[2] = "-" /\ IsYearToken(text[3])
    THEN RemoveYearRange(SubSeq(text, 4, Len(text)))
    ELSE <<text[1]>> \o RemoveYearRange(Tail(text))

\* _extract_degree
extract_degree(text) ==
    IF degree_type(text) = None THEN None
    ELSE Some(RemoveYearRange(RemoveBarYear(text)))

\* a field that is None or the empty string
Falsy(field) == field = None \/ field = Some(<<>>)

\* _parse_education_block on a block of one line
parse_education_block(block) ==
    IF block = <<>> THEN None
    ELSE
    LET parts == structured_parts(block)
        primary_line == IF Len(parts) >= 2 THEN JoinWith(parts, <<"|">>) ELSE block
        degree0 == extract_degree(primary_line)
        year0 == education_extract_year(block)
        status == extract_status(block)
        degree == IF Len(parts) >= 2 /\ Falsy(degree0) THEN Some(parts[1]) ELSE degree0
        institution1 == IF Len(parts) >= 2 THEN Some(parts[2]) ELSE None
        year == IF Len(parts) >= 3 /\ year0 = None
                THEN education_extract_year(JoinWith(SubSeq(parts, 3, Len(parts)), <<>>))
                ELSE year0
        institution == IF Falsy(institution1) THEN extract_institution(block)
                       ELSE institution1
        noise == \E term \in {"conhecimento", "habilidade", "skill", "competência",
                               "competencia"} : In(term, Lower(block))
    IN  IF Falsy(degree) THEN None
        ELSE IF Falsy(institution) /\ year = None /\ noise THEN None
        ELSE Some([degree |-> Get(degree), institution |-> institution,
                   completion_year |-> year, status |-> status])

----------------------------------------------------------------------------
(* Section locator of ExperienceExtractor and EducationExtractor *)

\* A line is its words and whether white space precedes them. A pattern is its
\* alternatives, an alternative the pattern words that \s+ separates.

EXPERIENCE_SECTION_PATTERNS ==
    << <<<<"experiência", "profissional">>>>,
       <<<<"experiências?", "profissionais?">>>>,
       <<<<"histórico", "profissional">>>>,
       <<<<"trajetória", "profissional">>>>,
       <<<<"experiência">>>>,
       <<<<"professional", "experience">>>>,
       <<<<"experience">>>>,
       <<<<"work", "experience">>>>,
       <<<<"employment", "history">>>>,
       <<<<"career", "history">>>>,
       <<<<"professional", "background">>>> >>

EXPERIENCE_SECTION_END_PATTERNS ==
    << <<<<"formação">>, <<"education">>, <<"academics?">>>>,
       <<<<"habilidades">>, <<"skills">>>>,
       <<<<"competências">>>>,
       <<<<"certificações">>, <<"certifications">>>>,
       <<<<"projetos">>, <<"projects">>>>,
       <<<<"idiomas">>, <<"languages">>>>,
       <<<<"resumo">>, <<"summary">>>> >>

EDUCATION_SECTION_PATTERNS ==
    << <<<<"formação", "acadêmica">>>>,
       <<<<"formação">>>>,
       <<<<"educação">>>>,
       <<<<"education">>>>,
       <<<<"academic", "background">>>>,
       <<<<"academic", "history">>>>,
       <<<<"escolaridade">>>>,
       <<<<"academic", "profile">>>>,
       <<<<"studies">>>> >>

EDUCATION_SECTION_END_PATTERNS ==
    << <<<<"experiência">>, <<"experience">>>>,
       <<<<"habilidades">>, <<"skills">>>>,
       <<<<"competências">>>>,
       <<<<"certificações">>, <<"certifications">>>>,
       <<<<"projetos">>, <<"projects">>>>,
       <<<<"idiomas">>, <<"languages">>>>,
       <<<<"resumo">>, <<"summary">>>> >>

\* the pattern words that match somewhere inside a word of the text, ignoring case
FragmentsIn(t) ==
    CASE t = "Experiência" -> {"experiência", "experiências?"}
      [] t = "Profissional" -> {"profissional"}
      [] t = "inexperiência" -> {"experiência", "experiências?"}
      [] t = "Formação" -> {"formação"}
      [] t = "Acadêmica" -> {"acadêmica"}
      [] t = "Habilidades:" -> {"habilidades"}
      [] t = "profissional" -> {"profissional"}
      [] t = "formação" -> {"formação"}
      [] t = "Requisitos" -> {"requisitos?"}
      [] t = "Obrigatórios" -> {"(obrigat[oó]rios?|essenciais?|necess[aá]rios?)"}
      [] t = "Desejáveis" -> {"(desej[aá]veis?|preferenciais?)"}
      [] t = "Diferenciais:" -> {"diferenciais?"}
      [] OTHER -> {}

\* the pattern words that match at the start of a word of the text
FragmentsAtStart(t) ==
    CASE t = "Experiência" -> {"experiência", "experiências?"}
      [] t = "Profissional" -> {"profissional"}
      [] t = "Formação" -> {"formação"}
      [] t = "Acadêmica" -> {"acadêmica"}
      [] t = "Habilidades:" -> {"habilidades"}
      [] t = "profissional" -> {"profissional"}
      [] t = "formação" -> {"formação"}
      [] t = "Requisitos" -> {"requisitos?"}
      [] t = "Obrigatórios" -> {"(obrigat[oó]rios?|essenciais?|necess[aá]rios?)"}
      [] t = "Desejáveis" -> {"(desej[aá]veis?|preferenciais?)"}
      [] t = "Diferenciais:" -> {"diferenciais?"}
      [] OTHER -> {}

\* the pattern words that match at the end of a word of the text
FragmentsAtEnd(t) ==
    CASE t = "Experiência" -> {"experiência", "experiências?"}
      [] t = "Profissional" -> {"profissional"}
      [] t = "inexperiência" -> {"experiência", "experiências?"}
      [] t = "Formação" -> {"formação"}
      [] t = "Acadêmica" -> {"acadêmica"}
      [] t = "profissional" -> {"profissional"}
      [] t = "formação" -> {"formação"}
      [] t = "Requisitos" -> {"requisitos?"}
      [] t = "Obrigatórios" -> {"(obrigat[oó]rios?|essenciais?|necess[aá]rios?)"}
      [] t = "Desejáveis" -> {"(desej[aá]veis?|preferenciais?)"}
      [] OTHER -> {}

\* the line as it is, leading white space included
strip_nothing(line) == line

\* line.strip()
strip(line) == [line EXCEPT !.indent = FALSE]

\* one alternative matches somewhere in the words: its first word ends a word
\* of the text and its next word starts the following one
SearchAlternative(alt, words) ==
    \E i \in DOMAIN words :
        IF Len(alt) = 1 THEN alt[1] \in FragmentsIn(words[i])
        ELSE /\ i + 1 <= Len(words)
             /\ alt[1] \in FragmentsAtEnd(words[i])
             /\ alt[2] \in FragmentsAtStart(words[i + 1])

\* re.search(pattern, line)
re_search(pattern, line) ==
    \E a \in DOMAIN pattern : SearchAlternative(pattern[a], line.words)

\* re.match(pattern, line): an alternative matches where the line begins
re_match(pattern, line) ==
    /\ ~line.indent
    /\ line.words # <<>>
    /\ \E a \in DOMAIN pattern :
          /\ pattern[a][1] \in FragmentsAtStart(line.words[1])
          /\ Len(pattern[a]) > 1 =>
                /\ pattern[a][1] \in FragmentsAtEnd(line.words[1])
                /\ Len(line.words) > 1
                /\ pattern[a][2] \in FragmentsAtStart(line.words[2])

\* for pattern in SECTION_PATTERNS: if re.search(pattern, line): ... break
RECURSIVE AnySearch(_, _)
AnySearch(pattern_list, line) ==
    IF pattern_list = <<>> THEN FALSE
    ELSE IF re_search(Head(pattern_list), line) THEN TRUE
         ELSE AnySearch(Tail(pattern_list), line)

\* for pattern in SECTION_END_PATTERNS: if re.match(pattern, lines[i].strip()): ... break
RECURSIVE AnyMatch(_, _)
AnyMatch(pattern_list, line) ==
    IF pattern_list = <<>> THEN FALSE
    ELSE IF re_match(Head(pattern_list), strip(line)) THEN TRUE
         ELSE AnyMatch(Tail(pattern_list), line)

\* the first loop from line i on: the index of the line after the first line
\* that a start pattern matches, or None
RECURSIVE FindStart(_, _, _)
FindStart(lines, start_patterns, i) ==
    IF i > Len(lines) THEN None
    ELSE IF AnySearch(start_patterns, lines[i]) THEN Some(i + 1)
         ELSE FindStart(lines, start_patterns, i + 1)

\* the second loop from line i on: the index of the first line that an end
\* pattern matches, or of the line after the last
RECURSIVE FindEnd(_, _, _)
FindEnd(lines, end_patterns, i) ==
    IF i > Len(lines) THEN Len(lines) + 1
    ELSE IF AnyMatch(end_patterns, lines[i]) THEN i
         ELSE FindEnd(lines, end_patterns, i + 1)

EmptyLine == [indent |-> FALSE, words |-> <<>>]

\* "\n".join(lines) as the lines of the string it makes: no lines and one
\* empty line both make the empty string
Join(lines) == IF lines = <<>> THEN <<EmptyLine>> ELSE lines

\* _find_experience_section and _find_education_section, each over its own lists
find_section(lines, start_patterns, end_patterns) ==
    LET start_idx == FindStart(lines, start_patterns, 1)
    IN  IF start_idx = None THEN None
        ELSE LET end_idx == FindEnd(lines, end_patterns, Get(start_idx))
             IN  Some(Join(SubSeq(lines, Get(start_idx), end_idx - 1)))

find_experience_section(lines) ==
    find_section(lines, EXPERIENCE_SECTION_PATTERNS, EXPERIENCE_SECTION_END_PATTERNS)

find_education_section(lines) ==
    find_section(lines, EDUCATION_SECTION_PATTERNS, EDUCATION_SECTION_END_PATTERNS)

----------------------------------------------------------------------------
(* ExperienceExtractor: the records of an experience section *)

\* A block is the stripped, non-blank lines of one entry, each line its words.

COMMON_ROLES ==
    {"desenvolvedor", "developer", "engenheiro", "engineer", "analista", "analyst",
     "programador", "programmer", "arquiteto", "architect", "tech lead", "líder técnico",
     "gerente", "manager", "coordenador", "coordinator", "consultor", "consultant",
     "especialista", "specialist", "estagiário", "intern", "trainee", "junior", "pleno",
     "sênior", "senior", "staff"}

COMPANY_HINTS ==
    {"empresa", "company", "corp", "inc", "ltda", "s.a", "startup", "solutions", "group",
     "consulting", "labs", "studio"}

\* the separators of JOB_LINE_PATTERN and of _parse_unstructured_line that the
\* vocabulary has: the bar and the hyphen
JobSeparators == {"|", "-"}

\* the tokens that are made of \w characters only
JobWordTokens ==
    {"Desenvolvedor", "Analista", "Acme", "Python", "SQL", "2019", "2021", "atual",
     "desenvolvedor", "acme", "Backend", "Bacharelado", "Mestrado", "UFAL", "2015",
     "2030", "completo", "Direito"}

\* len(token)
CharLen(t) ==
    CASE t = "Desenvolvedor" -> 13
      [] t = "desenvolvedor" -> 13
      [] t = "Analista" -> 8
      [] t = "Acme" -> 4
      [] t = "acme" -> 4
      [] t = "Python" -> 6
      [] t = "SQL" -> 3
      [] t = "2019" -> 4
      [] t = "2021" -> 4
      [] t = "atual" -> 5
      [] t = "Backend" -> 7
      [] t = "Bacharelado" -> 11
      [] t = "UFAL" -> 4
      [] t = "completo" -> 8
      [] t \in {"|", "-", "@"} -> 1

\* the characters of a token that are not of [\w\s\-/]
OddChars(t) == IF t \in {"|", "@"} THEN 1 ELSE 0

\* the token has an upper-case letter, a lower-case letter
HasUpperCase(t) == t \in {"Desenvolvedor", "Analista", "Acme", "Python", "SQL"}
HasLowerCase(t) ==
    t \in {"Desenvolvedor", "Analista", "Acme", "Python", "atual", "desenvolvedor", "acme"}

\* len(text) of words that single spaces separate
TextLen(text) ==
    IF text = <<>> THEN 0
    ELSE SumOver([i \in DOMAIN text |-> CharLen(text[i])], DOMAIN text) + Len(text) - 1

\* text.isupper()
isupper(text) ==
    /\ \E i \in DOMAIN text : HasUpperCase(text[i])
    /\ \A i \in DOMAIN text : ~HasLowerCase(text[i])

\* line.lstrip(...).strip() over the bullets "-" and "*"
RECURSIVE LstripBullets(_)
LstripBullets(line) ==
    IF line = <<>> THEN <<>>
    ELSE IF Head(line) \in {"-", "*"} THEN LstripBullets(Tail(line))
    ELSE line

\* line.startswith(BULLET_PREFIXES)
StartsWithBullet(line) == line # <<>> /\ line[1] \in {"-", "*"}

\* re.search(r"\d{4}|atual|present|current", line, re.IGNORECASE)
HasYearOrCurrent(line) ==
    \E i \in DOMAIN line :
        IsYear(line[i]) \/ LowerOf(line[i]) \in {"atual", "present", "current"}

\* re.search(r"\d{4}", line)
HasYear(line) == \E i \in DOMAIN line : IsYear(line[i])

\* JOB_LINE_PATTERN.match(line): the role up to the first separator, the
\* company up to the second and the period after it, as far as it runs over
\* words, dashes and slashes; None when the line does not match
JOB_LINE_PATTERN_match(line) ==
    LET seps == {i \in DOMAIN line : line[i] \in JobSeparators}
    IN  IF Cardinality(seps) < 2 THEN None
        ELSE
        LET s1 == First(seps)
            s2 == First(seps \ {s1})
            stops == {i \in (s2 + 1)..Len(line) :
                         line[i] \notin JobWordTokens \cup {"-", "/"}}
            last == IF stops = {} THEN Len(line) ELSE First(stops) - 1
        IN  IF s1 = 1 \/ s2 = Len(line) THEN None
            ELSE IF \E i \in (1..(s1 - 1)) \cup ((s1 + 1)..(s2 - 1)) :
                        line[i] \notin JobWordTokens
                 THEN None
            ELSE Some([role |-> SubSeq(line, 1, s1 - 1),
                       company |-> SubSeq(line, s1 + 1, s2 - 1),
                       period |-> SubSeq(line, s2 + 1, last)])

\* _has_role_keyword
has_role_keyword(text) == \E role_keyword \in COMMON_ROLES : In(role_keyword, Lower(text))

\* _is_likely_role
is_likely_role(text) ==
    IF has_role_keyword(text) THEN TRUE
    ELSE IF TextLen(text) < 5 \/ TextLen(text) > 100 THEN FALSE
    ELSE IF SumOver([i \in DOMAIN text |-> OddChars(text[i])], DOMAIN text) > 5 THEN FALSE
    ELSE TRUE

\* _starts_new_block
starts_new_block(line, current_block) ==
    LET normalized == LstripBullets(line)
    IN  IF current_block = <<>> THEN FALSE
        ELSE IF JOB_LINE_PATTERN_match(line) # None THEN TRUE
        ELSE IF isupper(normalized) /\ TextLen(normalized) > 4 THEN TRUE
        ELSE IF StartsWithBullet(line)
             THEN /\ has_role_keyword(normalized)
                  /\ \/ DATE_PATTERN_search(line) # 0
                     \/ \E i \in DOMAIN line : line[i] = "|"
                     \/ HasYear(line)
        ELSE IF /\ has_role_keyword(normalized)
                /\ \/ HasYearOrCurrent(line)
                   \/ \E i \in DOMAIN line : line[i] \in {"|", "@"}
                   \/ \E i \in 2..(Len(line) - 1) : line[i] = "-"
                   \/ Len(normalized) <= 6
             THEN TRUE
        ELSE is_likely_role(normalized) /\ HasYear(line)

\* the loop of _split_into_blocks over the lines that are left
RECURSIVE ExperienceBlocksFrom(_, _, _)
ExperienceBlocksFrom(lines, blocks, current_block) ==
    IF lines = <<>>
    THEN IF current_block # <<>> THEN Append(blocks, current_block) ELSE blocks
    ELSE LET stripped == Head(lines).words
         IN  IF stripped = <<>>
             THEN ExperienceBlocksFrom(Tail(lines), blocks, current_block)
             ELSE IF starts_new_block(stripped, current_block)
             THEN ExperienceBlocksFrom(Tail(lines), Append(blocks, current_block),
                                       <<stripped>>)
             ELSE ExperienceBlocksFrom(Tail(lines), blocks,
                                       Append(current_block, stripped))

\* ExperienceExtractor._split_into_blocks
experience_split_into_blocks(lines) == ExperienceBlocksFrom(lines, <<>>, <<>>)

\* re.split at the separators, with the blank parts dropped
RECURSIVE SplitAtSeparators(_)
SplitAtSeparators(line) ==
    LET seps == {i \in DOMAIN line : line[i] \in JobSeparators}
    IN  IF seps = {} THEN IF line = <<>> THEN <<>> ELSE <<line>>
        ELSE (IF First(seps) = 1 THEN <<>> ELSE <<SubSeq(line, 1, First(seps) - 1)>>)
             \o SplitAtSeparators(SubSeq(line, First(seps) + 1, Len(line)))

\* _parse_unstructured_line
parse_unstructured_line(line) ==
    LET parts == SplitAtSeparators(line)
    IN  IF Len(parts) >= 3
        THEN [role |-> parts[1], company |-> Some(parts[2]), period |-> Some(parts[3])]
        ELSE IF Len(parts) = 2
        THEN IF DATE_PATTERN_search(parts[2]) # 0
             THEN [role |-> parts[1], company |-> None, period |-> Some(parts[2])]
             ELSE [role |-> parts[1], company |-> Some(parts[2]), period |-> None]
        ELSE IF Len(parts) = 1
        THEN [role |-> parts[1], company |-> None, period |-> None]
        ELSE [role |-> line, company |-> None, period |-> None]

\* candidate.strip(" -|,.")
StripCompany(text) ==
    LET kept == {i \in DOMAIN text : text[i] \notin {"-", "|", ",", "."}}
    IN  IF kept = {} THEN <<>> ELSE SubSeq(text, First(kept), Last(kept))

\* the company that one line after the first gives, or None
CompanyInLine(line) ==
    LET marks == {i \in DOMAIN line :
                     \/ line[i] = "@"
                     \/ LowerOf(line[i]) \in {"em", "at"} /\ 1 < i /\ i < Len(line)}
        candidate == IF marks = {} THEN <<>>
                     ELSE StripCompany(SubSeq(line, First(marks) + 1, Len(line)))
        parts == SplitAtBars(line)
        hinted == {k \in DOMAIN parts :
                      /\ parts[k] # <<>>
                      /\ \E hint \in COMPANY_HINTS : In(hint, Lower(parts[k]))}
    IN  IF candidate # <<>> THEN Some(candidate)
        ELSE IF hinted # {} THEN Some(parts[First(hinted)])
        ELSE None

\* _extract_company_from_lines
RECURSIVE CompanyFrom(_, _)
CompanyFrom(lines, i) ==
    IF i > Len(lines) THEN None
    ELSE IF CompanyInLine(lines[i]) # None THEN CompanyInLine(lines[i])
    ELSE CompanyFrom(lines, i + 1)

extract_company_from_lines(lines) == CompanyFrom(lines, 2)

\* the loop of _extract_period_from_lines: the first line with a date range
\* gives the range, the first with an explicit duration gives the line
RECURSIVE PeriodFrom(_, _)
PeriodFrom(lines, i) ==
    IF i > Len(lines) THEN None
    ELSE LET k == DATE_PATTERN_search(lines[i])
         IN  IF k # 0 THEN Some(SubSeq(lines[i], k, k + 2))
             ELSE IF DURATION_PATTERN_search(lines[i]) # 0 THEN Some(lines[i])
             ELSE PeriodFrom(lines, i + 1)

\* _extract_period_from_lines; the two years of the last step are joined by "-"
extract_period_from_lines(lines) ==
    LET found == PeriodFrom(lines, 1)
        all == JoinWith(lines, <<>>)
        years == KeepAt(all, {i \in DOMAIN all : IsYear(all[i])})
    IN  IF found # None THEN found
        ELSE IF Len(years) >= 2 THEN Some(<<years[1], "-", years[2]>>)
        ELSE None

\* _parse_experience_block
parse_experience_block(lines) ==
    IF lines = <<>> THEN None
    ELSE
    LET first_line == lines[1]
        first_line_clean == LstripBullets(first_line)
        match == JOB_LINE_PATTERN_match(first_line)
        fields == IF match # None
                  THEN [role |-> Get(match).role, company |-> Some(Get(match).company),
                        period |-> Some(Get(match).period)]
                  ELSE parse_unstructured_line(first_line)
        role == IF fields.role = <<>> THEN first_line ELSE fields.role
        company == IF Falsy(fields.company) THEN extract_company_from_lines(lines)
                   ELSE fields.company
        period == IF Falsy(fields.period) THEN extract_period_from_lines(lines)
                  ELSE fields.period
        description == IF Len(lines) > 1 THEN Some(Tail(lines)) ELSE None
    IN  IF AnyMatch(EXPERIENCE_SECTION_PATTERNS, [indent |-> FALSE, words |-> first_line])
        THEN None
        ELSE IF first_line_clean = <<>> THEN None
        ELSE IF StartsWithBullet(first_line) /\ ~has_role_keyword(first_line_clean)
        THEN None
        ELSE IF ~is_likely_role(role) THEN None
        ELSE Some([role |-> role, company |-> company, duration |-> period,
                   description |-> description])

\* the results that are not None, in their order
RECURSIVE Somes(_)
Somes(options) ==
    IF options = <<>> THEN <<>>
    ELSE (IF Head(options) = None THEN <<>> ELSE <<Get(Head(options))>>)
         \o Somes(Tail(options))

\* the empty string: one line with nothing on it
EmptyText == <<EmptyLine>>

\* ExperienceExtractor._extract_with_regex
experience_extract_with_regex(text) ==
    LET section_text == find_experience_section(text)
    IN  IF section_text = None \/ section_text = Some(EmptyText) THEN <<>>
        ELSE LET blocks == experience_split_into_blocks(Get(section_text))
             IN  Somes([i \in DOMAIN blocks |-> parse_experience_block(blocks[i])])

----------------------------------------------------------------------------
(* EducationExtractor: the records of an education section *)

\* _looks_like_structured_entry
looks_like_structured_entry(line) ==
    \/ /\ \/ \E i \in DOMAIN line : line[i] = "|"
          \/ \E i \in 2..(Len(line) - 1) : line[i] = "-"
       /\ contains_degree(line)
    \/ /\ line # <<>> /\ line[1] \in {"-", "*"}
       /\ contains_degree(line)

\* the loop of _split_into_blocks over the lines that are left
RECURSIVE EducationBlocksFrom(_, _, _)
EducationBlocksFrom(lines, blocks, current_block) ==
    IF lines = <<>>
    THEN IF current_block # <<>> THEN Append(blocks, current_block) ELSE blocks
    ELSE LET stripped == Head(lines).words
         IN  IF stripped = <<>>
             THEN EducationBlocksFrom(Tail(lines), blocks, current_block)
             ELSE IF /\ current_block # <<>>
                     /\ (contains_degree(stripped) \/ looks_like_structured_entry(stripped))
             THEN EducationBlocksFrom(Tail(lines), Append(blocks, current_block),
                                      <<stripped>>)
             ELSE EducationBlocksFrom(Tail(lines), blocks,
                                      Append(current_block, stripped))

\* EducationExtractor._split_into_blocks
education_split_into_blocks(lines) == EducationBlocksFrom(lines, <<>>, <<>>)

\* the line of a block of one line
OneLine(block) == CHOOSE line \in {block[1]} : block = <<line>>

\* the Education of _parse_education_block with its year and status as texts
EducationOf(parsed) ==
    IF parsed = None THEN None
    ELSE Some([degree |-> Get(parsed).degree,
               institution |-> Get(parsed).institution,
               completion_year |-> IF Get(parsed).completion_year = None THEN None
                                   ELSE Some(<<Get(Get(parsed).completion_year)>>),
               status |-> <<Get(parsed).status>>])

\* EducationExtractor._extract_with_regex, on sections whose blocks are one line each
education_extract_with_regex(text) ==
    LET section_text == find_education_section(text)
    IN  IF section_text = None \/ section_text = Some(EmptyText) THEN <<>>
        ELSE LET blocks == education_split_into_blocks(Get(section_text))
             IN  Somes([i \in DOMAIN blocks |->
                           EducationOf(parse_education_block(OneLine(blocks[i])))])

----------------------------------------------------------------------------
(* The LLM fallback of the two extractors *)

\* What llm_client.call does is part of the client: it raises, or it returns
\* None, a str, or an LLMResponse with its content and its success flag.

\* all the words of a text
AllWords(text) == JoinWith([i \in DOMAIN text |-> text[i].words], <<>>)

\* parts[k] if parts[k] else None
OrNone(part) == IF part = <<>> THEN None ELSE Some(part)

\* the Experience of one line of the response, None for a line that gives none
experience_of_line(line) ==
    LET parts == SplitAtBars(line.words)
    IN  IF line.words = <<>> \/ line.words[1] = "#" THEN None
        ELSE IF Len(parts) >= 3
        THEN Some([role |-> parts[1],
                   company |-> OrNone(parts[2]),
                   duration |-> OrNone(parts[3]),
                   description |-> IF Len(parts) > 3 THEN Some(<<parts[4]>>) ELSE None])
        ELSE None

\* the Education of one line of the response, None for a line that gives none
education_of_line(line) ==
    LET parts == SplitAtBars(line.words)
    IN  IF line.words = <<>> \/ line.words[1] = "#" THEN None
        ELSE IF Len(parts) >= 2
        THEN Some([degree |-> parts[1],
                   institution |-> OrNone(parts[2]),
                   completion_year |-> IF Len(parts) > 2 THEN Some(parts[3]) ELSE None,
                   status |-> IF Len(parts) > 3 THEN Lower(parts[4])
                              ELSE <<"completed">>])
        ELSE None

\* the body of the try of _extract_with_llm: the list it returns, or the
\* exception that leaves it
llm_try(which, client) ==
    LET response == client.call
    IN  IF response.kind = "raises" THEN [raised |-> "RuntimeError"]
        ELSE IF response.kind = "None" THEN [returned |-> <<>>]
        ELSE IF response.kind = "LLMResponse" THEN [raised |-> "AttributeError"]
        ELSE IF response.text = EmptyText THEN [returned |-> <<>>]
        ELSE IF In("error", Lower(AllWords(response.text))) THEN [returned |-> <<>>]
        ELSE [returned |->
                 Somes([i \in DOMAIN response.text |->
                           IF which = "experience"
                           THEN experience_of_line(response.text[i])
                           ELSE education_of_line(response.text[i])])]

\* an exception that is let through
no_except(call_result) == call_result

\* except Exception: log and return []
except_Exception(call_result) ==
    IF "raised" \in DOMAIN call_result THEN [returned |-> <<>>] ELSE call_result

\* _extract_with_llm of the extractor `which`
extract_with_llm(which, client) ==
    IF client = None THEN [returned |-> <<>>]
    ELSE except_Exception(llm_try(which, Get(client)))

----------------------------------------------------------------------------
(* extract_from_candidate of ExperienceExtractor and EducationExtractor *)

\* if text: a text that is neither None nor empty
Truthy(text) == text # None /\ text # Some(EmptyText)

\* text_variants: the raw text, then the normalized text if it is another one
build_text_variants(c) ==
    LET raw == IF Truthy(Some(c.raw_text)) THEN <<c.raw_text>> ELSE <<>>
    IN  IF /\ Truthy(c.normalized_text)
           /\ \A i \in DOMAIN raw : raw[i] # Get(c.normalized_text)
        THEN Append(raw, Get(c.normalized_text))
        ELSE raw

\* candidate.raw_text or candidate.normalized_text or ""
fallback_text(c) ==
    IF Truthy(Some(c.raw_text)) THEN c.raw_text
    ELSE IF Truthy(c.normalized_text) THEN Get(c.normalized_text)
    ELSE EmptyText

\* self._extract_with_regex(variant)
extract_with_regex(which, variant) ==
    IF which = "experience" THEN experience_extract_with_regex(variant)
    ELSE education_extract_with_regex(variant)

\* the fallback whenever there is a client
fallback_with_any_records(found, client) == client # None

\* if not experiences and self.llm_client
fallback_wanted(found, client) == found = <<>> /\ client # None

----------------------------------------------------------------------------
(* core.models *)

\* names equal as written
SkillEqCaseSensitive(a, b) == a.name = b.name

\* Skill.__eq__: names equal case-insensitively
SkillEq(a, b) == LowerOf(a.name) = LowerOf(b.name)

\* skill in target_list
SkillIn(skill, list) == \E i \in DOMAIN list : SkillEq(list[i], skill)

\* Candidate(name=..., raw_text=...) with every other field at its default
NewCandidate(name) ==
    [name |-> name, raw_text |-> <<>>, normalized_text |-> None,
     contact |-> None, email |-> None, file_path |-> None,
     hard_skills |-> <<>>, soft_skills |-> <<>>,
     experiences |-> <<>>, education |-> <<>>,
     score |-> RInt(0), score_breakdown |-> <<>>,
     explanation |-> None]

\* Candidate.add_skill
add_skill(c, skill) ==
    IF skill.category = "hard"
    THEN IF SkillIn(skill, c.hard_skills) THEN c
         ELSE [c EXCEPT !.hard_skills = Append(@, skill)]
    ELSE IF SkillIn(skill, c.soft_skills) THEN c
         ELSE [c EXCEPT !.soft_skills = Append(@, skill)]

\* for sk in skills: cand.add_skill(sk)
RECURSIVE AddSkills(_, _)
AddSkills(c, skills) ==
    IF skills = <<>> THEN c ELSE AddSkills(add_skill(c, Head(skills)), Tail(skills))

----------------------------------------------------------------------------
(* parsing.loader: reading a directory of resumes *)

\* name_pattern.match(t): a capital letter followed by lower-case letters only
IsNameWord(t) ==
    t \in {"Maria", "Silva", "Desenvolvedor", "Python", "Experiência", "Profissional",
           "Formação", "Acadêmica", "Analista", "Bacharelado", "Mestrado", "Direito"}

tech_keywords == {"python", "java", "desenvolvedor", "developer", "curriculo"}

\* [l.strip() for l in raw_text.splitlines() if l.strip()][:10]
NonEmptyLines(text) ==
    LET keep == SelectSeq(text, LAMBDA l : l.words # <<>>)
    IN  [i \in 1..(IF Len(keep) < 10 THEN Len(keep) ELSE 10) |-> keep[i].words]

\* the first line from line i on that reads as a name, or the fallback
RECURSIVE InferNameFrom(_, _, _)
InferNameFrom(lines, i, fallback) ==
    IF i > Len(lines) THEN fallback
    ELSE LET tokens == lines[i]
         IN  IF /\ 2 <= Len(tokens) /\ Len(tokens) <= 5
                /\ \A k \in DOMAIN tokens : IsNameWord(tokens[k])
                /\ {LowerOf(tokens[k]) : k \in DOMAIN tokens} \cap tech_keywords = {}
             THEN tokens
             ELSE InferNameFrom(lines, i + 1, fallback)

\* _infer_name
infer_name(raw_text, fallback) == InferNameFrom(NonEmptyLines(raw_text), 1, fallback)

\* pattern.match(file.name) for curriculo_(\d+).txt, ignoring case: the number, or None
FileNameMatch(name) ==
    CASE name = "Curriculo_10.txt" -> Some(10)
      [] name = "curriculo_1.txt" -> Some(1)
      [] name = "curriculo_2.txt" -> Some(2)
      [] OTHER -> None

\* f"{idx:02d}"
TwoDigits(idx) ==
    CASE idx = 1 -> "01"
      [] idx = 2 -> "02"
      [] idx = 10 -> "10"

\* the place of a file name in sorted(dir_path.glob("*.txt"))
NameOrder(name) ==
    CASE name = "Curriculo_10.txt" -> 1
      [] name = "curriculo_1.txt" -> 2
      [] name = "curriculo_2.txt" -> 3
      [] name = "notas.txt" -> 4

\* sorted(dir_path.glob("*.txt"))
RECURSIVE SortedFiles(_)
SortedFiles(files) ==
    IF files = {} THEN <<>>
    ELSE LET first == CHOOSE f \in files :
                          \A g \in files : NameOrder(f.name) <= NameOrder(g.name)
         IN  <<first>> \o SortedFiles(files \ {first})

\* _safe_read: the text of the file, or the exception read_bytes raised; bytes
\* that are not UTF-8 decode as Latin-1, which accepts every byte
safe_read(file) ==
    IF file.readable THEN [returned |-> file.content]
    ELSE [raised |-> "OSError"]

\* one pass of the loop of load_candidates over the file at the head of the
\* listing: the candidates after it, or the exception that leaves the loop
load_one(file, so_far) ==
    LET m == FileNameMatch(file.name)
    IN  IF m = None THEN [returned |-> so_far]
        ELSE LET raw == safe_read(file)
             IN  IF "raised" \in DOMAIN raw THEN raw
                 ELSE LET fallback_name == <<"Candidato", TwoDigits(Get(m))>>
                          name == infer_name(raw.returned, fallback_name)
                      IN  [returned |->
                              Append(so_far,
                                     [NewCandidate(name) EXCEPT
                                         !.raw_text = raw.returned,
                                         !.file_path = Some(file.name)])]

----------------------------------------------------------------------------
(* SkillExtractor *)

\* A dict in insertion order: a sequence of <<key, value>> pairs with distinct keys
OrderedKeys(d) == [i \in DOMAIN d |-> d[i][1]]
OrderedHas(d, k) == \E i \in DOMAIN d : d[i][1] = k
OrderedGet(d, k) == d[CHOOSE i \in DOMAIN d : d[i][1] = k][2]

\* d[k] = v: a new key goes last, a key already there keeps its place
OrderedSet(d, k, v) ==
    IF OrderedHas(d, k)
    THEN [i \in DOMAIN d |-> IF d[i][1] = k THEN <<k, v>> ELSE d[i]]
    ELSE Append(d, <<k, v>>)

\* d.setdefault(k, v)
OrderedSetDefault(d, k, v) == IF OrderedHas(d, k) THEN d ELSE Append(d, <<k, v>>)

\* the items of every group of a category, in dict order
RECURSIVE GroupItems(_)
GroupItems(groups) ==
    IF groups = <<>> THEN <<>> ELSE Head(groups)[2] \o GroupItems(Tail(groups))

\* hard[it.lower()] = "hard" for every item
RECURSIVE CanonicalSet(_, _, _)
CanonicalSet(items, category, d) ==
    IF items = <<>> THEN d
    ELSE CanonicalSet(Tail(items), category,
                      OrderedSet(d, LowerOf(Head(items)), category))

\* _build_canonical_sets
build_canonical_sets(config) ==
    [hard |-> CanonicalSet(GroupItems(config.hard_skills), "hard", <<>>),
     soft |-> CanonicalSet(GroupItems(config.soft_skills), "soft", <<>>)]

\* alias_map[a.lower()] = canon for every alias of one synonyms entry
RECURSIVE AliasesOf(_, _, _)
AliasesOf(alist, canon, d) ==
    IF alist = <<>> THEN d
    ELSE AliasesOf(Tail(alist), canon, OrderedSet(d, LowerOf(Head(alist)), canon))

\* the loop over config["synonyms"]
RECURSIVE SynonymEntries(_, _)
SynonymEntries(synonyms, d) ==
    IF synonyms = <<>> THEN d
    ELSE LET canon == LowerOf(Head(synonyms)[1])
         IN  SynonymEntries(Tail(synonyms),
                            AliasesOf(Head(synonyms)[2], canon,
                                      OrderedSet(d, canon, canon)))

\* alias_map.setdefault(canon, canon) for every canonical skill
RECURSIVE CanonicalEntries(_, _)
CanonicalEntries(canons, d) ==
    IF canons = <<>> THEN d
    ELSE CanonicalEntries(Tail(canons),
                          OrderedSetDefault(d, Head(canons), Head(canons)))

\* _build_alias_map
build_alias_map(config) ==
    LET sets == build_canonical_sets(config)
    IN  CanonicalEntries(OrderedKeys(sets.hard) \o OrderedKeys(sets.soft),
                         SynonymEntries(config.synonyms, <<>>))

\* the words of a term, which _compile_pattern joins by \s+
Words(term) ==
    CASE term = "java script" -> <<"java", "script">>
      [] OTHER -> <<term>>

\* the compiled pattern matches the text at word i, ignoring case
MatchAt(words, txt, i) ==
    /\ i + Len(words) - 1 <= Len(txt)
    /\ \A k \in DOMAIN words : LowerOf(txt[i + k - 1]) = LowerOf(words[k])

\* len(list(pattern.finditer(text))) from word i on: matches do not overlap
RECURSIVE CountHits(_, _, _)
CountHits(words, txt, i) ==
    IF i + Len(words) - 1 > Len(txt) THEN 0
    ELSE IF MatchAt(words, txt, i)
         THEN 1 + CountHits(words, txt, i + Len(words))
         ELSE CountHits(words, txt, i + 1)

\* the loop of extract_from_text over the aliases, in the order of _patterns
RECURSIVE MatchAliases(_, _, _, _, _)
MatchAliases(aliases, alias_map, sets, txt, matches) ==
    IF aliases = <<>> THEN matches
    ELSE
    LET alias == Head(aliases)
        hits == CountHits(Words(alias), txt, 1)
        canonical == OrderedGet(alias_map, alias)
        category == IF OrderedHas(sets.hard, canonical) THEN Some("hard")
                    ELSE IF OrderedHas(sets.soft, canonical) THEN Some("soft")
                    ELSE None
        source == IF alias # canonical THEN "synonym" ELSE "dictionary"
        count == (IF OrderedHas(matches, canonical)
                  THEN OrderedGet(matches, canonical).count ELSE 0) + hits
    IN  IF hits = 0 \/ category = None
        THEN MatchAliases(Tail(aliases), alias_map, sets, txt, matches)
        ELSE MatchAliases(Tail(aliases), alias_map, sets, txt,
                          OrderedSet(matches, canonical,
                                     [canonical |-> canonical,
                                      category |-> Get(category),
                                      source |-> source, count |-> count]))

\* extract_from_text: one Skill per match, in the order of the matches
extract_from_text(config, txt) ==
    LET alias_map == build_alias_map(config)
        matches == MatchAliases(OrderedKeys(alias_map), alias_map,
                                build_canonical_sets(config), txt, <<>>)
    IN  [i \in DOMAIN matches |->
            LET m == matches[i][2]
            IN  [name |-> m.canonical, category |-> m.category,
                 confidence |-> IF m.source = "dictionary"
                                THEN Rat(9, 10) ELSE Rat(85, 100),
                 source |-> m.source]]

\* cand.normalized_text or cand.raw_text.lower()
base_text(c) ==
    IF c.normalized_text \notin {None, Some(<<>>)}
    THEN Get(c.normalized_text) ELSE Lower(c.raw_text)

\* extract_from_candidate
extract_from_candidate(config, c) ==
    AddSkills(c, extract_from_text(config, base_text(c)))

----------------------------------------------------------------------------
(* ScoringEngine *)

\* dict.get(key, default)
DictGet(dict, key, default) == IF key \in DOMAIN dict THEN dict[key] ELSE default

\* default_skill_weight = 5.0
DefaultSkillWeight == 5

\* the per-skill score of the loop body: weight * skill.confidence
SkillScore(skill_weights, skill) ==
    RMul(DictGet(skill_weights, LowerOf(skill.name), RInt(DefaultSkillWeight)),
         skill.confidence)

\* unnormalised: the total is not divided by the number of skills
normalized_total_only(total, skills) == total

\* normalized = total / len(skills)
normalized(total, skills) == RDivInt(total, Len(skills))

\* _calculate_skills_score: (final, breakdown)
calculate_skills_score(skill_weights, skills, category_weight) ==
    IF skills = <<>> THEN [final |-> RInt(0), breakdown |-> <<>>]
    ELSE
    LET names == {LowerOf(skills[i].name) : i \in DOMAIN skills}
        \* breakdown[skill_name] = score: the last skill of a name wins
        last(nm) == CHOOSE i \in DOMAIN skills :
                        /\ LowerOf(skills[i].name) = nm
                        /\ \A j \in DOMAIN skills :
                                LowerOf(skills[j].name) = nm => j <= i
        total == RSum([i \in DOMAIN skills |-> SkillScore(skill_weights, skills[i])])
    IN  [final |-> RMul(normalized(total, skills), category_weight),
         breakdown |-> [nm \in names |-> SkillScore(skill_weights, skills[last(nm)])]]

\* the years-to-score curve
YearsScore(total_years) ==
    IF RLe(RInt(5), total_years) THEN RInt(10)
    ELSE IF RLe(RInt(3), total_years) THEN RAdd(RInt(6), RSub(total_years, RInt(3)))
    ELSE IF RLe(RInt(1), total_years) THEN RAdd(RInt(4), RSub(total_years, RInt(1)))
    ELSE RMul(total_years, RInt(4))

SeniorityBonus(seniority) ==
    CASE seniority = "senior" -> 2
      [] seniority = "mid" -> 1
      [] OTHER -> 0

\* +1 per experience whose role has a developer term that is in the job text too
RelevanceBonus(experiences, j) ==
    IF j = None THEN 0
    ELSE LET job_text_lower == Lower(Get(j).description)
         IN  Cardinality({i \in DOMAIN experiences :
                \E term \in {"desenvolvedor", "developer"} :
                    /\ In(term, Lower(experiences[i].role))
                    /\ In(term, job_text_lower)})

\* _calculate_experience_score
calculate_experience_score(c, weight, j) ==
    IF c.experiences = <<>> THEN RInt(0)
    ELSE
    LET total_years == calculate_total_years(c.experiences)
        years_score == YearsScore(total_years)
        seniority == infer_seniority(total_years, c.experiences[1].role)
        total_score == RMul(RAdd(years_score,
                                 RInt(SeniorityBonus(seniority)
                                      + RelevanceBonus(c.experiences, j))),
                            weight)
    IN  round(total_score, 2)

\* level_scores.get(highest_level, 0.0)
LevelScore(level) ==
    CASE level = 6 -> 10
      [] level = 5 -> 9
      [] level = 4 -> 8
      [] level = 3 -> 7
      [] level = 2 -> 5
      [] level = 1 -> 3
      [] level = 0 -> 1
      [] OTHER -> 0

\* the rounded education score as it is, negative or not
NoFloor(x) == x

\* max(round(total_score, 2), 0.0)
FloorAtZero(x) == RMax(x, RInt(0))

\* some entry is incomplete
any_incomplete(education) ==
    \E i \in DOMAIN education : education[i].status = "incomplete"

\* all(edu.status == "incomplete" for edu in candidate.education)
all_incomplete(education) ==
    \A i \in DOMAIN education : education[i].status = "incomplete"

\* _calculate_education_score
calculate_education_score(c, weight, j) ==
    IF c.education = <<>> THEN RInt(0)
    ELSE
    LET highest_level == get_highest_degree_level(c.education)
        relevance_bonus == IF has_relevant_degree(c.education) THEN 2 ELSE 0
        completion_penalty == IF all_incomplete(c.education) THEN -2 ELSE 0
        total_score == RMul(RInt(LevelScore(highest_level) + relevance_bonus
                                 + completion_penalty), weight)
    IN  FloorAtZero(round(total_score, 2))

\* the total that score_candidate rounds into candidate.score
TotalScore(hard_score, soft_score, exp_score, edu_score) ==
    RAdd(RAdd(hard_score, soft_score), RAdd(exp_score, edu_score))

\* score_candidate: the candidate with score and score_breakdown filled in
score_candidate(w, c, j) ==
    LET hard_weight == DictGet(w.category_weights, "hard_skills", Rat(60, 100))
        hard == calculate_skills_score(w.skill_weights, c.hard_skills, hard_weight)
        soft_weight == DictGet(w.category_weights, "soft_skills", Rat(20, 100))
        soft == calculate_skills_score(w.skill_weights, c.soft_skills, soft_weight)
        exp_weight == DictGet(w.category_weights, "experience", Rat(15, 100))
        exp_score == calculate_experience_score(c, exp_weight, j)
        edu_weight == DictGet(w.category_weights, "education", Rat(5, 100))
        edu_score == calculate_education_score(c, edu_weight, j)
        total == TotalScore(hard.final, soft.final, exp_score, edu_score)
    IN  [c EXCEPT
            !.score = round(total, 2),
            !.score_breakdown =
                [hard_skills |-> round(hard.final, 2),
                 soft_skills |-> round(soft.final, 2),
                 experience |-> round(exp_score, 2),
                 education |-> round(edu_score, 2),
                 hard_skills_detail |->
                    [k \in DOMAIN hard.breakdown |-> round(hard.breakdown[k], 2)],
                 soft_skills_detail |->
                    [k \in DOMAIN soft.breakdown |-> round(soft.breakdown[k], 2)]]]

\* an unstable sort: each element goes ahead of the placed elements of equal score
SortedInsertUnstable(sorted, c) ==
    LET ahead == {i \in DOMAIN sorted : RLt(c.score, sorted[i].score)}
        k == IF ahead = {} THEN 0 ELSE CHOOSE i \in ahead : \A j \in ahead : j <= i
    IN  SubSeq(sorted, 1, k) \o <<c>> \o SubSeq(sorted, k + 1, Len(sorted))

\* sorted(candidates, key=lambda c: c.score, reverse=True): a stable sort, so
\* each element goes behind every element already placed whose score is not lower
SortedInsert(sorted, c) ==
    LET ahead == {i \in DOMAIN sorted : RLe(c.score, sorted[i].score)}
        k == IF ahead = {} THEN 0 ELSE CHOOSE i \in ahead : \A j \in ahead : j <= i
    IN  SubSeq(sorted, 1, k) \o <<c>> \o SubSeq(sorted, k + 1, Len(sorted))

RECURSIVE SortedByScoreDesc(_)
SortedByScoreDesc(list) ==
    IF list = <<>> THEN <<>>
    ELSE SortedInsert(SortedByScoreDesc(SubSeq(list, 1, Len(list) - 1)),
                      list[Len(list)])

\* a scoring loop followed by candidates.sort(...), which reorders the input list
ScoreAllSortedInPlace(w, list, j) ==
    SortedByScoreDesc([i \in DOMAIN list |-> score_candidate(w, list[i], j)])

\* the input list after the scoring loop of rank_candidates
ScoreAll(w, list, j) == [i \in DOMAIN list |-> score_candidate(w, list[i], j)]

\* rank_candidates: the returned list
rank_candidates(w, list, j) == SortedByScoreDesc(ScoreAll(w, list, j))

----------------------------------------------------------------------------
(* Inputs *)

MaxSkills == 2
MaxExperiences == 2
MaxEducation == 2
MaxCandidates == 3

\* weights.json contents handed to ScoringEngine: the shipped category weights,
\* and a configuration that leaves three of them to the defaults of score_candidate
WeightInputs ==
    { [category_weights |-> [hard_skills |-> Rat(60, 100), soft_skills |-> Rat(20, 100),
                             experience |-> Rat(15, 100), education |-> Rat(5, 100)],
       skill_weights |-> <<>>],
      [category_weights |-> [hard_skills |-> Rat(55, 100)],
       skill_weights |-> [sql |-> RInt(8)]] }

JobInputs ==
    { None,
      Some([description |-> <<"Vaga", "Desenvolvedor", "Python">>]) }

\* the skills added to the candidate under scoring
SkillInputs ==
    { [name |-> "python", category |-> "hard", confidence |-> Rat(85, 100), source |-> "synonym"],
      [name |-> "SQL", category |-> "hard", confidence |-> Rat(95, 100), source |-> "regex"],
      [name |-> "Python", category |-> "hard", confidence |-> Rat(95, 100), source |-> "regex"],
      [name |-> "comunicação", category |-> "soft", confidence |-> Rat(90, 100), source |-> "dictionary"],
      [name |-> "liderança", category |-> "soft", confidence |-> RInt(1), source |-> "regex"],
      [name |-> "proatividade", category |-> "soft", confidence |-> RInt(1), source |-> "regex"] }

\* the arguments of _calculate_skills_score: skill lists and category weights
SkillArgInputs ==
    { [name |-> "python", category |-> "hard", confidence |-> RInt(1), source |-> "regex"],
      [name |-> "Python", category |-> "hard", confidence |-> Rat(85, 100), source |-> "synonym"],
      [name |-> "SQL", category |-> "hard", confidence |-> Rat(90, 100), source |-> "dictionary"],
      [name |-> "comunicação", category |-> "soft", confidence |-> Rat(90, 100), source |-> "dictionary"] }

SkillListInputs == UNION {[1..n -> SkillArgInputs] : n \in 0..MaxSkills}

CategoryWeightInputs == {RInt(0), Rat(20, 100), Rat(60, 100)}

ExperienceInputs ==
    { [role |-> <<"Desenvolvedor", "Backend">>, duration |-> Some(<<"3", "anos">>)],
      [role |-> <<"Analista", "Sênior">>, duration |-> Some(<<"2019", "-", "2021">>)] }

EducationInputs ==
    { [degree |-> <<"Ensino Médio">>, status |-> "incomplete"],
      [degree |-> <<"Bacharelado", "em", "Ciência da Computação">>, status |-> "completed"] }

Sk(nm) == CHOOSE s \in SkillInputs : s.name = nm
Ex(r) == CHOOSE e \in ExperienceInputs : e.role[1] = r
Ed(d) == CHOOSE e \in EducationInputs : e.degree[1] = d

\* a candidate as the parsing stages leave it
MakeCandidate(skills, experiences, education) ==
    [AddSkills(NewCandidate("?"), skills) EXCEPT
        !.experiences = experiences, !.education = education]

\* the candidates handed to rank_candidates
CandidateInputs ==
    { MakeCandidate(<<>>, <<>>, <<>>),
      MakeCandidate(<<>>, <<>>, <<Ed("Ensino Médio")>>),
      MakeCandidate(<<Sk("python"), Sk("SQL")>>, <<>>, <<>>),
      MakeCandidate(<<Sk("python"), Sk("SQL")>>, <<>>, <<Ed("Ensino Médio")>>),
      MakeCandidate(<<Sk("comunicação"), Sk("liderança")>>, <<Ex("Desenvolvedor")>>, <<>>),
      MakeCandidate(<<Sk("Python"), Sk("comunicação")>>, <<Ex("Analista")>>,
                    <<Ed("Bacharelado")>>) }

CandidateNames == <<"A", "B", "C", "D", "E">>

----------------------------------------------------------------------------
(* Scoring one candidate *)

InitScore ==
    /\ pc = "build"
    /\ weights \in WeightInputs
    /\ job \in JobInputs
    /\ cand = NewCandidate("A")
    /\ skillsResult = None
    /\ subScore = None
    /\ candidates = <<>>
    /\ ranked = None
    /\ NoSkills /\ NoSection /\ NoYears /\ NoEducation /\ NoLoader /\ NoExtract /\ NoPipeline /\ NoRequirements /\ NoNormalizer /\ NoDocument /\ NoContext /\ NoStages /\ NoValidator /\ NoRetry

AddSkill(skill) ==
    /\ pc = "build"
    /\ cand' = add_skill(cand, skill)
    /\ UNCHANGED <<pc, weights, job, skillsResult, subScore, candidates, ranked>>
    /\ UNCHANGED <<skillVars, sectionVars, yearsVars, educationVars, loaderVars, extractVars, pipelineVars, requirementsVars, normalizerVars, documentVars, contextVars, stageVars, validatorVars, retryVars>>

AddExperience(e) ==
    /\ pc = "build"
    /\ Len(cand.experiences) < MaxExperiences
    /\ cand' = [cand EXCEPT !.experiences = Append(@, e)]
    /\ UNCHANGED <<pc, weights, job, skillsResult, subScore, candidates, ranked>>
    /\ UNCHANGED <<skillVars, sectionVars, yearsVars, educationVars, loaderVars, extractVars, pipelineVars, requirementsVars, normalizerVars, documentVars, contextVars, stageVars, validatorVars, retryVars>>

AddEducation(e) ==
    /\ pc = "build"
    /\ Len(cand.education) < MaxEducation
    /\ cand' = [cand EXCEPT !.education = Append(@, e)]
    /\ UNCHANGED <<pc, weights, job, skillsResult, subScore, candidates, ranked>>
    /\ UNCHANGED <<skillVars, sectionVars, yearsVars, educationVars, loaderVars, extractVars, pipelineVars, requirementsVars, normalizerVars, documentVars, contextVars, stageVars, validatorVars, retryVars>>

ScoreCandidate ==
    /\ pc = "build"
    /\ cand' = score_candidate(weights, cand, job)
    /\ pc' = "scored"
    /\ UNCHANGED <<weights, job, skillsResult, subScore, candidates, ranked>>
    /\ UNCHANGED <<skillVars, sectionVars, yearsVars, educationVars, loaderVars, extractVars, pipelineVars, requirementsVars, normalizerVars, documentVars, contextVars, stageVars, validatorVars, retryVars>>

NextScore ==
    \/ \E skill \in SkillInputs : AddSkill(skill)
    \/ \E e \in ExperienceInputs : AddExperience(e)
    \/ \E e \in EducationInputs : AddEducation(e)
    \/ ScoreCandidate

SpecScore == InitScore /\ [][NextScore]_vars

\* C1: after score_candidate, the stored score equals the sum of the four stored,
\* rounded category entries of score_breakdown, rounded to 2 decimals.
C1_ScoreIsRoundedSumOfBreakdown ==
    pc = "scored" =>
        LET b == cand.score_breakdown
        IN  cand.score = round(RAdd(RAdd(b.hard_skills, b.soft_skills),
                                    RAdd(b.experience, b.education)), 2)

----------------------------------------------------------------------------
(* Scoring the experience of one candidate *)

RoleInputs ==
    { <<"Desenvolvedor", "Backend">>, <<"Analista", "Sênior">>,
      <<"Estagiário">>, <<"Developer", "Pleno">> }

ScoredDurationInputs ==
    { None, Some(<<"3", "anos">>), Some(<<"1.24", "anos">>),
      Some(<<"2021", "-", "2021">>), Some(<<"2019", "-", "atual">>) }

\* the weight argument of the two sub-score functions
SubScoreWeightInputs == {Rat(20, 100), RInt(1)}

InitExperienceScore ==
    /\ pc = "build"
    /\ weights = None
    /\ job \in JobInputs
    /\ cand = NewCandidate("A")
    /\ skillsResult = None
    /\ subScore = None
    /\ candidates = <<>>
    /\ ranked = None
    /\ NoSkills /\ NoSection /\ NoYears /\ NoEducation /\ NoLoader /\ NoExtract /\ NoPipeline /\ NoRequirements /\ NoNormalizer /\ NoDocument /\ NoContext /\ NoStages /\ NoValidator /\ NoRetry

AppendExperience(role, duration) ==
    /\ pc = "build"
    /\ Len(cand.experiences) < MaxExperiences
    /\ cand' = [cand EXCEPT !.experiences =
                    Append(@, [role |-> role, duration |-> duration])]
    /\ UNCHANGED <<pc, scoringVars>>
    /\ UNCHANGED <<skillVars, sectionVars, yearsVars, educationVars, loaderVars, extractVars, pipelineVars, requirementsVars, normalizerVars, documentVars, contextVars, stageVars, validatorVars, retryVars>>

CalculateExperienceScore(weight) ==
    /\ pc = "build"
    /\ subScore' = Some([weight |-> weight,
                         score |-> calculate_experience_score(cand, weight, job)])
    /\ pc' = "experience_scored"
    /\ UNCHANGED <<weights, job, cand, skillsResult, candidates, ranked>>
    /\ UNCHANGED <<skillVars, sectionVars, yearsVars, educationVars, loaderVars, extractVars, pipelineVars, requirementsVars, normalizerVars, documentVars, contextVars, stageVars, validatorVars, retryVars>>

NextExperienceScore ==
    \/ \E role \in RoleInputs, duration \in ScoredDurationInputs :
            AppendExperience(role, duration)
    \/ \E weight \in SubScoreWeightInputs : CalculateExperienceScore(weight)

SpecExperienceScore == InitExperienceScore /\ [][NextExperienceScore]_vars

\* the words of a role, lower-cased, that hold one of the keywords
C11_HasKeyword(role, keywords) ==
    \E i \in DOMAIN role : TermsIn(LowerOf(role[i])) \cap keywords # {}

\* the seniority bonus of C11: the keyword of the role, else the thresholds
C11_SeniorityBonus(years, role) ==
    IF C11_HasKeyword(role, {"senior", "sênior", "sr"}) THEN 2
    ELSE IF C11_HasKeyword(role, {"pleno", "mid", "middle"}) THEN 1
    ELSE IF C11_HasKeyword(role, {"junior", "júnior", "jr", "intern", "estagiário"}) THEN 0
    ELSE IF years.n >= 5 * years.d THEN 2
    ELSE IF years.n >= 2 * years.d THEN 1
    ELSE 0

\* the years-to-score curve of C11
C11_YearsScore(years) ==
    IF years.n >= 5 * years.d THEN RInt(10)
    ELSE IF years.n >= 3 * years.d THEN Rat(years.n + 3 * years.d, years.d)
    ELSE IF years.n >= years.d THEN Rat(years.n + 3 * years.d, years.d)
    ELSE Rat(4 * years.n, years.d)

\* the experiences whose role has a developer term that the job description has too
C11_RelevantExperiences ==
    IF job = None THEN {}
    ELSE {i \in DOMAIN cand.experiences :
            \E term \in {"desenvolvedor", "developer"} :
                /\ \E k \in DOMAIN cand.experiences[i].role :
                        term \in TermsIn(LowerOf(cand.experiences[i].role[k]))
                /\ \E k \in DOMAIN Get(job).description :
                        term \in TermsIn(LowerOf(Get(job).description[k]))}

----------------------------------------------------------------------------
(* Scoring the education of one candidate *)

DegreeInputs ==
    { <<"Ensino Médio">>, <<"Técnico", "em", "Direito">>, <<"Tecnólogo">>,
      <<"Bacharelado", "em", "Ciência da Computação">>, <<"Especialização">>,
      <<"Mestrado", "em", "Direito">>, <<"Doutorado">>, <<"Direito">> }

StatusInputs == {"completed", "in_progress", "incomplete"}

InitEducationScore ==
    /\ pc = "build"
    /\ weights = None
    /\ job = None
    /\ cand = NewCandidate("A")
    /\ skillsResult = None
    /\ subScore = None
    /\ candidates = <<>>
    /\ ranked = None
    /\ NoSkills /\ NoSection /\ NoYears /\ NoEducation /\ NoLoader /\ NoExtract /\ NoPipeline /\ NoRequirements /\ NoNormalizer /\ NoDocument /\ NoContext /\ NoStages /\ NoValidator /\ NoRetry

AppendEducation(degree, status) ==
    /\ pc = "build"
    /\ Len(cand.education) < MaxEducation
    /\ cand' = [cand EXCEPT !.education =
                    Append(@, [degree |-> degree, status |-> status])]
    /\ UNCHANGED <<pc, scoringVars>>
    /\ UNCHANGED <<skillVars, sectionVars, yearsVars, educationVars, loaderVars, extractVars, pipelineVars, requirementsVars, normalizerVars, documentVars, contextVars, stageVars, validatorVars, retryVars>>

CalculateEducationScore(weight) ==
    /\ pc = "build"
    /\ subScore' = Some([weight |-> weight,
                         score |-> calculate_education_score(cand, weight, job)])
    /\ pc' = "education_scored"
    /\ UNCHANGED <<weights, job, cand, skillsResult, candidates, ranked>>
    /\ UNCHANGED <<skillVars, sectionVars, yearsVars, educationVars, loaderVars, extractVars, pipelineVars, requirementsVars, normalizerVars, documentVars, contextVars, stageVars, validatorVars, retryVars>>

NextEducationScore ==
    \/ \E degree \in DegreeInputs, status \in StatusInputs :
            AppendEducation(degree, status)
    \/ \E weight \in SubScoreWeightInputs : CalculateEducationScore(weight)

SpecEducationScore == InitEducationScore /\ [][NextEducationScore]_vars

\* the base of C12 by highest degree level
C12_Base == [level \in 0..6 |-> <<1, 3, 5, 7, 8, 9, 10>>[level + 1]]

\* some entry's degree names a relevant area
C12_Relevant ==
    \E i \in DOMAIN cand.education : \E k \in DOMAIN cand.education[i].degree :
        TermsIn(LowerOf(cand.education[i].degree[k])) \cap RELEVANT_AREAS # {}

\* C12: for a candidate with at least one education entry the education
\* sub-score is max(0, round((base + bonus + penalty) * weight, 2)): base by the
\* highest degree level (6->10, 5->9, 4->8, 3->7, 2->5, 1->3, 0->1), bonus +2
\* iff some entry's degree names a relevant area, penalty -2 iff every entry is
\* 'incomplete'; the result is never negative.
C12_EducationScoreFormula ==
    (pc = "education_scored" /\ cand.education # <<>>) =>
        LET base == C12_Base[get_highest_degree_level(cand.education)]
            bonus == IF C12_Relevant THEN 2 ELSE 0
            penalty == IF \A i \in DOMAIN cand.education :
                              cand.education[i].status = "incomplete"
                       THEN -2 ELSE 0
            value == round(RMul(RInt(base + bonus + penalty),
                                Get(subScore).weight), 2)
        IN  /\ Get(subScore).score = (IF value.n < 0 THEN RInt(0) ELSE value)
            /\ Get(subScore).score.n >= 0

\* scored: a relevant bachelor and a master, one of them incomplete
C12_Witness ==
    /\ pc = "education_scored"
    /\ cand.education =
          << [degree |-> <<"Mestrado", "em", "Direito">>, status |-> "incomplete"],
             [degree |-> <<"Bacharelado", "em", "Ciência da Computação">>,
              status |-> "completed"] >>
    /\ Get(subScore).weight = Rat(20, 100)
    /\ Get(subScore).score = Rat(220, 100)

----------------------------------------------------------------------------
(* The highest degree level of a list of education entries *)

\* Education.degree of the entries
DegreeTextInputs ==
    { <<"Mestrado", "Bacharelado">>, <<"Bacharelado", "Mestrado">>,
      <<"Doutorado">>, <<"PhD">>, <<"Master">>, <<"Técnico">>,
      <<"Ensino Médio">>, <<"Direito">>, <<"Bachelor">>, <<"High School">> }

InitDegreeLevel ==
    /\ pc = "build"
    /\ cand = NewCandidate("A")
    /\ NoScoring /\ NoSkills /\ NoSection /\ NoYears /\ NoEducation /\ NoLoader /\ NoExtract /\ NoPipeline /\ NoRequirements /\ NoNormalizer /\ NoDocument /\ NoContext /\ NoStages /\ NoValidator /\ NoRetry

AppendDegree(degree) ==
    /\ pc = "build"
    /\ Len(cand.education) < MaxEducation
    /\ cand' = [cand EXCEPT !.education =
                    Append(@, [degree |-> degree, status |-> "completed"])]
    /\ UNCHANGED <<pc, educationVars>>
    /\ UNCHANGED <<scoringVars, skillVars, sectionVars, yearsVars, loaderVars, extractVars, pipelineVars, requirementsVars, normalizerVars, documentVars, contextVars, stageVars, validatorVars, retryVars>>

GetHighestDegreeLevel ==
    /\ pc = "build"
    /\ highestLevel' = Some(get_highest_degree_level(cand.education))
    /\ pc' = "levelled"
    /\ UNCHANGED <<cand, eduBlock, eduYear, eduStatus, eduParsed>>
    /\ UNCHANGED <<scoringVars, skillVars, sectionVars, yearsVars, loaderVars, extractVars, pipelineVars, requirementsVars, normalizerVars, documentVars, contextVars, stageVars, validatorVars, retryVars>>

NextDegreeLevel ==
    \/ \E degree \in DegreeTextInputs : AppendDegree(degree)
    \/ GetHighestDegreeLevel

SpecDegreeLevel == InitDegreeLevel /\ [][NextDegreeLevel]_vars

\* the rank of a category in the precedence of C13
C13_Rank(category) ==
    CASE category = Some("doutorado") -> 6
      [] category \in {Some("mestrado"), Some("mba")} -> 5
      [] category = Some("especialização") -> 4
      [] category \in {Some("bacharelado"), Some("licenciatura")} -> 3
      [] category = Some("tecnólogo") -> 2
      [] category = Some("técnico") -> 1
      [] OTHER -> 0

\* the rank of the winning category of each entry
C13_Ranks == {C13_Rank(degree_type(cand.education[i].degree)) : i \in DOMAIN cand.education}

\* C13: degree classification follows the precedence doctorate > master/MBA >
\* specialization > bachelor/licentiate > technologist > technical > high
\* school: of the categories with a keyword in a degree text, in any order, the
\* one of highest precedence wins ('mestrado' with 'bacharelado' is mestrado),
\* and get_highest_degree_level returns, in 0..6, the maximum over the entries
\* of the rank of each entry's winning category, 0 for an empty list.
C13_HighestLevelIsMaxRank ==
    pc = "levelled" =>
        /\ \A i \in DOMAIN cand.education :
              LET text == cand.education[i].degree
                  won == degree_type(text)
              IN  /\ \A k \in DegreeTypesIn(Lower(text)) :
                        C13_Rank(Some(DEGREE_PATTERNS[k][1])) <= C13_Rank(won)
                  /\ (In("mestrado", Lower(text)) /\ In("bacharelado", Lower(text)))
                        => won = Some("mestrado")
        /\ Get(highestLevel) \in 0..6
        /\ Get(highestLevel) =
              (IF cand.education = <<>> THEN 0
               ELSE CHOOSE r \in C13_Ranks : \A q \in C13_Ranks : q <= r)

\* the rank of the i-th category of DEGREE_PATTERNS
C28_CategoryRank(i) == C13_Rank(Some(DEGREE_PATTERNS[i][1]))

\* C28: the degree rank is consistent with the classification keywords: for every
\* category of DEGREE_PATTERNS and every keyword listed under it, Portuguese or
\* English, an education whose degree text contains the keyword and no keyword of
\* a category of higher precedence gets from get_highest_degree_level the rank of
\* that category.
C28_RankFollowsEveryKeyword ==
    (pc = "levelled" /\ Len(cand.education) = 1) =>
        LET degree_lower == Lower(cand.education[1].degree)
        IN  \A i \in DOMAIN DEGREE_PATTERNS : \A keyword \in DEGREE_PATTERNS[i][2] :
                ( /\ In(keyword, degree_lower)
                  /\ \A k \in DegreeTypesIn(degree_lower) :
                        C28_CategoryRank(k) <= C28_CategoryRank(i) )
                => Get(highestLevel) = C28_CategoryRank(i)

\* the part of it that holds: the keywords that are the category names of level_map
RankFollowsCategoryNames ==
    (pc = "levelled" /\ Len(cand.education) = 1) =>
        LET degree_lower == Lower(cand.education[1].degree)
        IN  \A i \in DOMAIN DEGREE_PATTERNS :
                ( /\ In(DEGREE_PATTERNS[i][1], degree_lower)
                  /\ \A k \in DegreeTypesIn(degree_lower) :
                        C28_CategoryRank(k) <= C28_CategoryRank(i) )
                => Get(highestLevel) = C28_CategoryRank(i)

----------------------------------------------------------------------------
(* Parsing one education block *)

MaxBlockLen == 3

BlockWords == {"1950", "2015", "2019", "2030", "2040", "-", "atual", "previsto"}

\* a period, and the status words that may follow an entry
PeriodInputs ==
    { <<"2015", "-", "2019">>, <<"2015", "-", "2030">>, <<"2015", "-", "2040">>,
      <<"2015", "-", "1950">>, <<"2015", "-", "atual">>, <<"2019">> }

StatusWordInputs ==
    { <<>>, <<"Incompleto">>, <<"Trancado">>, <<"Cursando">>, <<"Concluído">>,
      <<"Trancado", "Cursando">> }

\* 'degree | institution | period' entries, with or without a status word
StructuredEntryInputs ==
    { degree \o <<"|">> \o institution \o <<"|">> \o period \o word :
        degree \in {<<"Bacharelado">>, <<"Direito">>},
        institution \in {<<"UFAL">>, <<"Estácio">>, <<"MIT">>},
        period \in PeriodInputs, word \in StatusWordInputs }

\* entries written without bars
PlainEntryInputs ==
    { degree \o institution \o year \o word :
        degree \in {<<"Bacharelado">>, <<"Direito">>},
        institution \in {<<>>, <<"UFAL">>, <<"Estácio">>, <<"MIT">>},
        year \in {<<>>, <<"2019">>, <<"2030">>}, word \in StatusWordInputs }

BlockInputs ==
    UNION {[1..n -> BlockWords] : n \in 0..MaxBlockLen}
    \cup StructuredEntryInputs \cup PlainEntryInputs

InitEducationBlock ==
    /\ pc = "block"
    /\ cand = NewCandidate("A")
    /\ eduBlock \in BlockInputs
    /\ highestLevel = None /\ eduYear = None /\ eduStatus = None /\ eduParsed = None
    /\ NoScoring /\ NoSkills /\ NoSection /\ NoYears /\ NoLoader /\ NoExtract /\ NoPipeline /\ NoRequirements /\ NoNormalizer /\ NoDocument /\ NoContext /\ NoStages /\ NoValidator /\ NoRetry

ExtractYear ==
    /\ pc = "block"
    /\ eduYear' = education_extract_year(eduBlock)
    /\ pc' = "year"
    /\ UNCHANGED <<cand, highestLevel, eduBlock, eduStatus, eduParsed>>
    /\ UNCHANGED <<scoringVars, skillVars, sectionVars, yearsVars, loaderVars, extractVars, pipelineVars, requirementsVars, normalizerVars, documentVars, contextVars, stageVars, validatorVars, retryVars>>

ExtractStatus ==
    /\ pc = "block"
    /\ eduStatus' = Some(extract_status(eduBlock))
    /\ pc' = "status"
    /\ UNCHANGED <<cand, highestLevel, eduBlock, eduYear, eduParsed>>
    /\ UNCHANGED <<scoringVars, skillVars, sectionVars, yearsVars, loaderVars, extractVars, pipelineVars, requirementsVars, normalizerVars, documentVars, contextVars, stageVars, validatorVars, retryVars>>

ParseEducationBlock ==
    /\ pc = "block"
    /\ eduYear' = education_extract_year(eduBlock)
    /\ eduStatus' = Some(extract_status(eduBlock))
    /\ eduParsed' = parse_education_block(eduBlock)
    /\ pc' = "parsed"
    /\ UNCHANGED <<cand, highestLevel, eduBlock>>
    /\ UNCHANGED <<scoringVars, skillVars, sectionVars, yearsVars, loaderVars, extractVars, pipelineVars, requirementsVars, normalizerVars, documentVars, contextVars, stageVars, validatorVars, retryVars>>

NextEducationBlock == ExtractYear \/ ExtractStatus \/ ParseEducationBlock

SpecEducationBlock == InitEducationBlock /\ [][NextEducationBlock]_vars

\* a token that is a year y with 1960 <= y <= currentYear + 5
C14_Qualifies(token) ==
    /\ token # None
    /\ 1960 <= EducationYearValue(Get(token))
    /\ EducationYearValue(Get(token)) <= CurrentYear + 5

\* the first of the candidates that qualifies, no year when none does
C14_FirstQualifying(tokens) ==
    LET ok == {i \in DOMAIN tokens : C14_Qualifies(tokens[i])}
    IN  IF ok = {} THEN None ELSE tokens[First(ok)]

\* the last bare year of the text, and the last one that lies in the interval
C14_LastBareYear(text) ==
    LET bare == {i \in DOMAIN text : IsYearToken(text[i])}
    IN  IF bare = {} THEN None ELSE Some(text[Last(bare)])

C14_LastQualifyingBareYear(text) ==
    LET bare == {i \in DOMAIN text : C14_Qualifies(Some(text[i]))}
    IN  IF bare = {} THEN None ELSE Some(text[Last(bare)])

\* the entries 'degree | institution | Y1 - Y2' with Y2 in the interval
C14_StructuredEntry ==
    LET parts == SplitAtBars(eduBlock)
    IN  /\ Len(parts) = 3
        /\ parts[1] # <<>> /\ parts[2] # <<>>
        /\ Len(parts[3]) = 3
        /\ IsYearToken(parts[3][1]) /\ parts[3][2] = "-"
        /\ C14_Qualifies(Some(parts[3][3]))

\* what C14 says of a structured entry
C14_StructuredEntryFields ==
    (pc = "parsed" /\ C14_StructuredEntry) =>
        LET parts == SplitAtBars(eduBlock)
        IN  /\ eduParsed # None
            /\ Get(eduParsed).institution = Some(parts[2])
            /\ Get(eduParsed).completion_year = Some(parts[3][3])
            /\ (/\ StatusClassesIn(Lower(eduBlock)) = {}
                /\ EducationYearValue(parts[3][3]) <= CurrentYear)
                  => Get(eduParsed).status = "completed"

\* C14 as amended: year extraction tries the end token of the first date
\* range, then the year after an expected/previsto marker, then the bare years
\* of the text from the last to the first, and returns the first of these that
\* is a year y with 1960 <= y <= currentYear + 5, no year if none is; a
\* structured entry 'degree | institution | Y1-Y2' yields the second part as
\* institution, Y2 as completion_year and, Y2 not being in the future, status
\* completed.
C14_YearIsFirstQualifyingOfLastQualifying ==
    /\ pc = "year" =>
          /\ eduYear = C14_FirstQualifying(
                           <<DATE_RANGE_PATTERN_search(eduBlock),
                             EXPECTED_YEAR_PATTERN_search(eduBlock),
                             C14_LastQualifyingBareYear(eduBlock)>>)
          /\ eduYear # None => C14_Qualifies(eduYear)
    /\ C14_StructuredEntryFields

\* C14: year extraction tries the end token of the first date range, then the
\* year after an expected/previsto marker, then the last bare 4-digit year of
\* the text, and returns the first of these that is a year y with
\* 1960 <= y <= currentYear + 5, no year if none is, never a year outside the
\* interval; a structured entry 'degree | institution | Y1-Y2' yields the
\* second part as institution, Y2 as completion_year and, with no status
\* keyword and Y2 not in the future, status completed.
C14_YearIsFirstQualifyingCandidate ==
    /\ pc = "year" =>
          /\ eduYear = C14_FirstQualifying(
                           <<DATE_RANGE_PATTERN_search(eduBlock),
                             EXPECTED_YEAR_PATTERN_search(eduBlock),
                             C14_LastBareYear(eduBlock)>>)
          /\ eduYear # None => C14_Qualifies(eduYear)
    /\ (pc = "parsed" /\ C14_StructuredEntry
            /\ StatusClassesIn(Lower(eduBlock)) = {}) =>
          LET parts == SplitAtBars(eduBlock)
          IN  /\ eduParsed # None
              /\ Get(eduParsed).institution = Some(parts[2])
              /\ Get(eduParsed).completion_year = Some(parts[3][3])
              /\ EducationYearValue(parts[3][3]) <= CurrentYear
                    => Get(eduParsed).status = "completed"

\* a range that ends outside the interval: the year found is the start year
C14_Witness ==
    /\ pc = "year"
    /\ eduBlock = <<"2015", "-", "2040">>
    /\ eduYear = Some("2015")

\* the status classes of which the block has a word
C15_ClassesOfWords ==
    {i \in DOMAIN STATUS_PATTERNS :
        \E k \in DOMAIN eduBlock : LowerOf(eduBlock[k]) \in STATUS_PATTERNS[i][2]}

\* C15: the status of an extracted education comes from keyword match first: a
\* block with an incomplete-class word (incompleto, trancado, incomplete,
\* discontinued, dropped, paused) and no separate word of the two other
\* classes is 'incomplete', and likewise for the other classes; only a block
\* without status keyword has its status inferred from the year (a year up to
\* the current year: completed; a future year: in_progress; no year:
\* completed).
C15_StatusFromKeywordThenYear ==
    (pc = "parsed" /\ eduParsed # None) =>
        LET status == Get(eduParsed).status
            year == education_extract_year(eduBlock)
        IN  /\ \A i \in DOMAIN STATUS_PATTERNS :
                  C15_ClassesOfWords = {i} => status = STATUS_PATTERNS[i][1]
            /\ C15_ClassesOfWords = {} =>
                  status = (IF year # None /\ EducationYearValue(Get(year)) > CurrentYear
                            THEN "in_progress" ELSE "completed")

----------------------------------------------------------------------------
(* Scoring one category of skills *)

InitSkillsScore ==
    /\ pc = "build"
    /\ weights \in WeightInputs
    /\ job = None
    /\ cand = NewCandidate("A")
    /\ skillsResult = None
    /\ subScore = None
    /\ candidates = <<>>
    /\ ranked = None
    /\ NoSkills /\ NoSection /\ NoYears /\ NoEducation /\ NoLoader /\ NoExtract /\ NoPipeline /\ NoRequirements /\ NoNormalizer /\ NoDocument /\ NoContext /\ NoStages /\ NoValidator /\ NoRetry

CalculateSkillsScore(skills, category_weight) ==
    /\ pc = "build"
    /\ skillsResult' =
          Some([skills |-> skills, category_weight |-> category_weight,
                result |-> calculate_skills_score(weights.skill_weights,
                                                  skills, category_weight)])
    /\ pc' = "skills_scored"
    /\ UNCHANGED <<weights, job, cand, subScore, candidates, ranked>>
    /\ UNCHANGED <<skillVars, sectionVars, yearsVars, educationVars, loaderVars, extractVars, pipelineVars, requirementsVars, normalizerVars, documentVars, contextVars, stageVars, validatorVars, retryVars>>

NextSkillsScore ==
    \E skills \in SkillListInputs, category_weight \in CategoryWeightInputs :
        CalculateSkillsScore(skills, category_weight)

SpecSkillsScore == InitSkillsScore /\ [][NextSkillsScore]_vars

\* the per-skill value of C5: the configured weight of the skill name, else 5.0,
\* times the confidence of the skill
C5_Value(skill) ==
    LET nm == LowerOf(skill.name)
        w == IF nm \in DOMAIN weights.skill_weights
             THEN weights.skill_weights[nm] ELSE RInt(5)
    IN  RMul(w, skill.confidence)

\* C5: for a non-empty list, _calculate_skills_score returns the category weight
\* times the mean of the per-skill values; 'python' with confidence 1.0, no
\* override and category weight 0.6 gives 3.0; the result never exceeds the
\* category weight times the largest per-skill value.
C5_SkillsScoreIsWeightedMean ==
    (pc = "skills_scored" /\ Get(skillsResult).skills # <<>>) =>
        LET r == Get(skillsResult)
            n == Len(r.skills)
            sum == RSum([i \in 1..n |-> C5_Value(r.skills[i])])
        IN  /\ RMul(r.result.final, RInt(n)) = RMul(r.category_weight, sum)
            /\ (/\ n = 1
                /\ r.skills[1].name = "python"
                /\ r.skills[1].confidence = RInt(1)
                /\ "python" \notin DOMAIN weights.skill_weights
                /\ r.category_weight = Rat(6, 10)) => r.result.final = RInt(3)
            /\ \E i \in 1..n :
                    RLe(r.result.final, RMul(r.category_weight, C5_Value(r.skills[i])))

\* a list of several skills with different per-skill values, one of them under
\* a configured weight, has been scored with a positive category weight
C5_Witness ==
    /\ pc = "skills_scored"
    /\ LET r == Get(skillsResult)
       IN  /\ Len(r.skills) >= 2
           /\ C5_Value(r.skills[1]) # C5_Value(r.skills[2])
           /\ \E i \in DOMAIN r.skills :
                 LowerOf(r.skills[i].name) \in DOMAIN weights.skill_weights
           /\ RLt(RInt(0), r.category_weight)

----------------------------------------------------------------------------
(* Extracting skills into a candidate *)

MaxTextLen == 2

\* skills.json contents handed to SkillExtractor; dicts in file order
SkillsConfigInputs ==
    { [hard_skills |-> << <<"linguagens", <<"JavaScript">>>> >>,
       soft_skills |-> << <<"interpessoais", <<"Comunicação">>>> >>,
       synonyms |-> << <<"JavaScript", <<"JS", "Java Script">>>>,
                       <<"ECMAScript", <<"script">>>> >>],
      [hard_skills |-> << <<"web", <<"javascript", "js">>>> >>,
       soft_skills |-> <<>>,
       synonyms |-> << <<"javascript", <<"js">>>> >>] }

\* the words a resume text is made of
TextWords == {"JavaScript", "JS", "java", "script", "comunicação"}

TextInputs == UNION {[1..n -> TextWords] : n \in 0..MaxTextLen}

\* the skills other components add to the candidate
AddedSkillInputs ==
    { [name |-> "JavaScript", category |-> "hard", confidence |-> RInt(1), source |-> "llm"],
      [name |-> "javascript", category |-> "hard", confidence |-> Rat(5, 10), source |-> "regex"],
      [name |-> "js", category |-> "hard", confidence |-> Rat(7, 10), source |-> "llm"],
      [name |-> "Comunicação", category |-> "soft", confidence |-> RInt(1), source |-> "llm"] }

InitSkills ==
    /\ pc = "build"
    /\ skillsConfig \in SkillsConfigInputs
    /\ \E raw \in TextInputs, kept \in BOOLEAN :
            cand = [NewCandidate("A") EXCEPT
                       !.raw_text = raw,
                       !.normalized_text = IF kept THEN Some(raw) ELSE None]
    /\ lastCall = None
    /\ extracted = None
    /\ NoScoring /\ NoSection /\ NoYears /\ NoEducation /\ NoLoader /\ NoExtract /\ NoPipeline /\ NoRequirements /\ NoNormalizer /\ NoDocument /\ NoContext /\ NoStages /\ NoValidator /\ NoRetry

CallAddSkill(skill) ==
    /\ cand' = add_skill(cand, skill)
    /\ lastCall' = Some([op |-> "add_skill", skill |-> skill])
    /\ UNCHANGED <<pc, skillsConfig, extracted>>
    /\ UNCHANGED <<scoringVars, sectionVars, yearsVars, educationVars, loaderVars, extractVars, pipelineVars, requirementsVars, normalizerVars, documentVars, contextVars, stageVars, validatorVars, retryVars>>

ExtractFromCandidate ==
    /\ extracted' = Some(extract_from_text(skillsConfig, base_text(cand)))
    /\ cand' = extract_from_candidate(skillsConfig, cand)
    /\ lastCall' = Some([op |-> "extract_from_candidate"])
    /\ UNCHANGED <<pc, skillsConfig>>
    /\ UNCHANGED <<scoringVars, sectionVars, yearsVars, educationVars, loaderVars, extractVars, pipelineVars, requirementsVars, normalizerVars, documentVars, contextVars, stageVars, validatorVars, retryVars>>

NextSkills ==
    \/ \E skill \in AddedSkillInputs : CallAddSkill(skill)
    \/ ExtractFromCandidate

SpecSkills == InitSkills /\ [][NextSkills]_vars

\* no two entries of the list share a case-insensitive name
C3_NoDuplicates(list) ==
    \A i, j \in DOMAIN list : LowerOf(list[i].name) = LowerOf(list[j].name) => i = j

\* the list add_skill targets for a skill
C3_Target(c, skill) == IF skill.category = "hard" THEN c.hard_skills ELSE c.soft_skills

\* C3: after any sequence of add_skill and extract_from_candidate calls on a
\* candidate that started with empty skill lists, neither hard_skills nor
\* soft_skills has two entries of the same case-insensitive name, and adding a
\* skill whose name is already in the target list leaves the lists unchanged.
C3_SkillListsStayDuplicateFree ==
    [][/\ C3_NoDuplicates(cand'.hard_skills)
       /\ C3_NoDuplicates(cand'.soft_skills)
       /\ (/\ lastCall' # None
           /\ Get(lastCall').op = "add_skill"
           /\ \E i \in DOMAIN C3_Target(cand, Get(lastCall').skill) :
                LowerOf(C3_Target(cand, Get(lastCall').skill)[i].name)
                    = LowerOf(Get(lastCall').skill.name))
          => cand' = cand]_vars

\* a skill was added whose name, up to case, an extracted skill of the list
\* already had, with another confidence and source, after an extraction that
\* found a skill the candidate already had
C3_Witness ==
    /\ lastCall # None
    /\ Get(lastCall).op = "add_skill"
    /\ extracted # None
    /\ \E i \in DOMAIN cand.hard_skills :
          /\ LowerOf(cand.hard_skills[i].name) = LowerOf(Get(lastCall).skill.name)
          /\ cand.hard_skills[i].name # Get(lastCall).skill.name
          /\ cand.hard_skills[i].source \in {"dictionary", "synonym"}
          /\ cand.hard_skills[i].confidence # Get(lastCall).skill.confidence
    /\ \E i \in DOMAIN cand.soft_skills, j \in DOMAIN Get(extracted) :
          /\ cand.soft_skills[i].source = "llm"
          /\ LowerOf(cand.soft_skills[i].name) = Get(extracted)[j].name

\* the lower-case items of the groups of one category of the dictionary
DictionaryItems(groups) ==
    UNION {{LowerOf(groups[g][2][i]) : i \in DOMAIN groups[g][2]} : g \in DOMAIN groups}

\* the lower-case aliases the dictionary lists for a canonical term
DictionaryAliases(config, canonical) ==
    UNION {{LowerOf(config.synonyms[k][2][i]) : i \in DOMAIN config.synonyms[k][2]} :
              k \in {k \in DOMAIN config.synonyms :
                        LowerOf(config.synonyms[k][1]) = canonical}}

\* the term occurs in the text as whole words, whatever the case and the spacing
TermOccurs(term, txt) ==
    \E i \in DOMAIN txt :
        /\ i + Len(Words(term)) - 1 <= Len(txt)
        /\ \A k \in DOMAIN Words(term) : LowerOf(txt[i + k - 1]) = Words(term)[k]

\* C4: extract_from_text returns each canonical hard or soft skill that matches
\* the text, directly or through one of its aliases, exactly once, and returns
\* no skill that has no match.
C4_EveryMatchingSkillOnce ==
    extracted # None =>
        LET out == Get(extracted)
            txt == base_text(cand)
            canonicals == DictionaryItems(skillsConfig.hard_skills)
                            \cup DictionaryItems(skillsConfig.soft_skills)
            matches(c) == \/ TermOccurs(c, txt)
                          \/ \E a \in DictionaryAliases(skillsConfig, c) : TermOccurs(a, txt)
        IN  /\ \A c \in canonicals :
                    matches(c) => Cardinality({i \in DOMAIN out : out[i].name = c}) = 1
            /\ \A i \in DOMAIN out : out[i].name \in canonicals /\ matches(out[i].name)

\* C6: a returned skill whose canonical term itself occurs in the text has source
\* 'dictionary' and confidence 0.9, whether or not synonyms of it occur too; a
\* skill matched through synonyms only has source 'synonym' and confidence 0.85.
C6_DirectHitIsDictionary ==
    extracted # None =>
        \A i \in DOMAIN Get(extracted) :
            LET sk == Get(extracted)[i]
            IN  IF TermOccurs(sk.name, base_text(cand))
                THEN sk.source = "dictionary" /\ sk.confidence = Rat(9, 10)
                ELSE sk.source = "synonym" /\ sk.confidence = Rat(85, 100)

----------------------------------------------------------------------------
(* Locating a section *)

MaxLines == 3

LineInputs ==
    { [indent |-> FALSE, words |-> <<"Experiência", "Profissional">>],
      [indent |-> FALSE, words |-> <<"Minha", "inexperiência">>],
      [indent |-> FALSE, words |-> <<"Formação", "Acadêmica">>],
      [indent |-> TRUE, words |-> <<"Habilidades:">>],
      [indent |-> FALSE, words |-> <<"Desenvolvedor", "Python">>],
      [indent |-> FALSE, words |-> <<"Cursos", "de", "formação">>],
      EmptyLine }

\* text.split("\n") of the texts handed to the locators: at least one line
SectionTextInputs == UNION {[1..n -> LineInputs] : n \in 1..MaxLines}

\* the pattern lists of the two extractor classes
PatternInputs ==
    { [extractor |-> "experience", start |-> EXPERIENCE_SECTION_PATTERNS,
       end |-> EXPERIENCE_SECTION_END_PATTERNS],
      [extractor |-> "education", start |-> EDUCATION_SECTION_PATTERNS,
       end |-> EDUCATION_SECTION_END_PATTERNS] }

InitSection ==
    /\ pc = "text"
    /\ cand = NewCandidate("A")
    /\ sectionText \in SectionTextInputs
    /\ sectionPatterns \in PatternInputs
    /\ sectionFound = None
    /\ NoScoring /\ NoSkills /\ NoYears /\ NoEducation /\ NoLoader /\ NoExtract /\ NoPipeline /\ NoRequirements /\ NoNormalizer /\ NoDocument /\ NoContext /\ NoStages /\ NoValidator /\ NoRetry

FindExperienceSection ==
    /\ pc = "text"
    /\ sectionPatterns.extractor = "experience"
    /\ sectionFound' = find_experience_section(sectionText)
    /\ pc' = "located"
    /\ UNCHANGED <<cand, sectionText, sectionPatterns>>
    /\ UNCHANGED <<scoringVars, skillVars, yearsVars, educationVars, loaderVars, extractVars, pipelineVars, requirementsVars, normalizerVars, documentVars, contextVars, stageVars, validatorVars, retryVars>>

FindEducationSection ==
    /\ pc = "text"
    /\ sectionPatterns.extractor = "education"
    /\ sectionFound' = find_education_section(sectionText)
    /\ pc' = "located"
    /\ UNCHANGED <<cand, sectionText, sectionPatterns>>
    /\ UNCHANGED <<scoringVars, skillVars, yearsVars, educationVars, loaderVars, extractVars, pipelineVars, requirementsVars, normalizerVars, documentVars, contextVars, stageVars, validatorVars, retryVars>>

NextSection ==
    \/ FindExperienceSection
    \/ FindEducationSection

SpecSection == InitSection /\ [][NextSection]_vars

\* some start pattern matches anywhere in the line
C8_IsStart(line) ==
    \E p \in DOMAIN sectionPatterns.start : re_search(sectionPatterns.start[p], line)

\* some end pattern matches the line at its start
C8_IsEnd(line) ==
    \E p \in DOMAIN sectionPatterns.end : re_match(sectionPatterns.end[p], line)

\* some end pattern matches, at its start, the line without its leading white space
C8_IsEndStripped(line) == C8_IsEnd([indent |-> FALSE, words |-> line.words])

\* the list in reverse, rotated, or with two neighbours swapped
C8_Reorderings(list) ==
    LET n == Len(list)
    IN  {[i \in 1..n |-> list[n + 1 - i]]}
        \cup {[i \in 1..n |-> list[((i + k - 1) % n) + 1]] : k \in 1..n}
        \cup {[i \in 1..n |-> IF i = k THEN list[k + 1]
                              ELSE IF i = k + 1 THEN list[k] ELSE list[i]] :
                 k \in 1..(n - 1)}

\* reordering either pattern list, or both, does not change what the locator returns
C8_OrderIrrelevant ==
    /\ \A starts \in C8_Reorderings(sectionPatterns.start) :
          find_section(sectionText, starts, sectionPatterns.end) = sectionFound
    /\ \A ends \in C8_Reorderings(sectionPatterns.end) :
          find_section(sectionText, sectionPatterns.start, ends) = sectionFound
    /\ \A k \in 1..Len(sectionPatterns.end) :
          find_section(sectionText,
                       [i \in DOMAIN sectionPatterns.start |->
                          sectionPatterns.start[Len(sectionPatterns.start) + 1 - i]],
                       [i \in DOMAIN sectionPatterns.end |->
                          sectionPatterns.end[((i + k - 1) % Len(sectionPatterns.end)) + 1]])
            = sectionFound

\* the lines strictly after the first start line, up to the first later line
\* that is in ends, or to the end of the text; None without a start line
C8_Section(ends) ==
    LET starts == {i \in DOMAIN sectionText : C8_IsStart(sectionText[i])}
        first == CHOOSE i \in starts : \A j \in starts : i <= j
        later == {j \in ends : j > first}
        last == IF later = {} THEN Len(sectionText)
                ELSE (CHOOSE j \in later : \A k \in later : j <= k) - 1
    IN  IF starts = {} THEN None
        ELSE Some(Join(SubSeq(sectionText, first + 1, last)))

\* C8 as the code has it: the section ends before the first later line that,
\* with its surrounding white space stripped, matches an end pattern at its
\* start; the rest as stated (null without a start line, the section begins
\* after the first line a start pattern matches anywhere, it runs to the end of
\* the text without an end line, the order of the pattern lists is irrelevant).
C8_SectionEndsAtStrippedEndLine ==
    pc = "located" =>
        /\ sectionFound =
              C8_Section({j \in DOMAIN sectionText : C8_IsEndStripped(sectionText[j])})
        /\ C8_OrderIrrelevant

\* C8: the locator returns null when no line matches a start pattern, else the
\* lines strictly after the first line that matches a start pattern anywhere,
\* up to but excluding the first later line that matches an end pattern at its
\* start, or up to the end of the text; permuting the pattern lists never
\* changes the result.
C8_SectionEndsAtEndLine ==
    pc = "located" =>
        /\ sectionFound =
              C8_Section({j \in DOMAIN sectionText : C8_IsEnd(sectionText[j])})
        /\ C8_OrderIrrelevant

\* a section of one line was found between a start line and an indented end line
C8_Witness ==
    /\ pc = "located"
    /\ Len(sectionText) = 3
    /\ C8_IsStart(sectionText[1])
    /\ ~C8_IsEndStripped(sectionText[2])
    /\ sectionText[3].indent
    /\ C8_IsEndStripped(sectionText[3])
    /\ sectionFound = Some(<<sectionText[2]>>)

----------------------------------------------------------------------------
(* Totalling the years of experience *)

MaxDurationLen == 3

\* Experience.duration of the first experience: every string of up to
\* MaxDurationLen tokens, and two that hold an explicit duration and a period
DurationInputs ==
    {None}
    \cup {Some(d) : d \in UNION {[1..n -> DurationTokens] : n \in 0..MaxDurationLen}}
    \cup {Some(<<"3", "anos", "2019", "-", "2021">>),
          Some(<<"2019", "-", "2021", "3", "anos">>)}

\* the experiences that follow the first
LaterExperienceInputs ==
    {[role |-> <<"Estagiário">>, duration |-> Some(<<"1.24", "anos">>)],
     [role |-> <<"Developer">>, duration |-> Some(<<"2019", "-", "atual">>)]}

InitYears ==
    /\ pc = "build"
    /\ cand = NewCandidate("A")
    /\ totalYears = None
    /\ NoScoring /\ NoSkills /\ NoSection /\ NoEducation /\ NoLoader /\ NoExtract /\ NoPipeline /\ NoRequirements /\ NoNormalizer /\ NoDocument /\ NoContext /\ NoStages /\ NoValidator /\ NoRetry

FirstExperience(duration) ==
    /\ pc = "build"
    /\ cand.experiences = <<>>
    /\ cand' = [cand EXCEPT !.experiences =
                    <<[role |-> <<"Desenvolvedor">>, duration |-> duration]>>]
    /\ UNCHANGED <<pc, totalYears>>
    /\ UNCHANGED <<scoringVars, skillVars, sectionVars, educationVars, loaderVars, extractVars, pipelineVars, requirementsVars, normalizerVars, documentVars, contextVars, stageVars, validatorVars, retryVars>>

LaterExperience(e) ==
    /\ pc = "build"
    /\ cand.experiences # <<>>
    /\ Len(cand.experiences) < MaxExperiences
    /\ cand' = [cand EXCEPT !.experiences = Append(@, e)]
    /\ UNCHANGED <<pc, totalYears>>
    /\ UNCHANGED <<scoringVars, skillVars, sectionVars, educationVars, loaderVars, extractVars, pipelineVars, requirementsVars, normalizerVars, documentVars, contextVars, stageVars, validatorVars, retryVars>>

CalculateTotalYears ==
    /\ pc = "build"
    /\ totalYears' = Some(calculate_total_years(cand.experiences))
    /\ pc' = "totalled"
    /\ UNCHANGED cand
    /\ UNCHANGED <<scoringVars, skillVars, sectionVars, educationVars, loaderVars, extractVars, pipelineVars, requirementsVars, normalizerVars, documentVars, contextVars, stageVars, validatorVars, retryVars>>

NextYears ==
    \/ \E duration \in DurationInputs : FirstExperience(duration)
    \/ \E e \in LaterExperienceInputs : LaterExperience(e)
    \/ CalculateTotalYears

SpecYears == InitYears /\ [][NextYears]_vars

\* the positions of an explicit duration in the string: a number, then anos or years
C9_ExplicitAt(d) == {i \in 1..(Len(d) - 1) : IsNumber(d[i]) /\ IsUnit(d[i + 1])}

\* the positions of a date range: a year, a separator, then a year or one of
\* atual, present, current
C9_RangeAt(d) ==
    {i \in 1..(Len(d) - 2) :
        /\ IsYear(d[i]) /\ IsSeparator(d[i + 1])
        /\ (IsYear(d[i + 2]) \/ LowerOf(d[i + 2]) \in {"atual", "present", "current"})}

\* the years one duration stands for, as C9 states them
C9_Years(duration) ==
    IF duration = None \/ duration = Some(<<>>) THEN RInt(0)
    ELSE LET d == Get(duration)
             first(S) == CHOOSE i \in S : \A j \in S : i <= j
         IN  IF C9_ExplicitAt(d) # {} THEN NumberValue(d[first(C9_ExplicitAt(d))])
             ELSE IF C9_RangeAt(d) # {}
             THEN LET k == first(C9_RangeAt(d))
                      start_year == NumberValue(d[k]).n
                      end_year == IF IsYear(d[k + 2]) THEN NumberValue(d[k + 2]).n
                                  ELSE CurrentYear
                  IN  IF end_year - start_year >= 1 THEN RInt(end_year - start_year)
                      ELSE Rat(1, 2)
             ELSE RInt(1)

\* C9: calculate_total_years returns, rounded to 1 decimal, the sum over the
\* experiences of: 0 without a duration string; the explicit N anos/years value
\* when there is one, before any date range; else end year minus start year of
\* the date range, the end being the current year for atual/present/current, at
\* least 0.5; else 1.0. One experience of '3 anos' gives exactly 3.0.
C9_TotalYearsIsRoundedSum ==
    pc = "totalled" =>
        /\ Get(totalYears) =
              round(RSum([i \in DOMAIN cand.experiences |->
                             C9_Years(cand.experiences[i].duration)]), 1)
        /\ (/\ Len(cand.experiences) = 1
            /\ cand.experiences[1].duration = Some(<<"3", "anos">>))
           => Get(totalYears) = RInt(3)

\* totalled: an explicit duration next to a date range, and a range that is
\* open to the current year
C9_Witness ==
    /\ pc = "totalled"
    /\ Len(cand.experiences) = 2
    /\ cand.experiences[1].duration = Some(<<"2019", "-", "2021", "3", "anos">>)
    /\ cand.experiences[2].duration = Some(<<"2019", "-", "atual">>)
    /\ Get(totalYears) = RInt(3 + CurrentYear - 2019)

\* the string with the token at position i replaced
C10_Replace(d, i, t) == [d EXCEPT ![i] = t]

\* the durations that lengthen a duration in one of the three ways of C10: a
\* larger explicit value; the same start year with a later end year; the same
\* start year with an open end in place of an end year up to the current year
C10_Longer(duration) ==
    IF duration = None THEN {}
    ELSE LET d == Get(duration)
             larger(i) == {t \in DurationTokens :
                              IsNumber(t) /\ RLt(NumberValue(d[i]), NumberValue(t))}
             later(i) == {t \in DurationTokens :
                             IsYear(t) /\ RLt(NumberValue(d[i]), NumberValue(t))}
             closed == {i \in C9_RangeAt(d) : IsYear(d[i + 2])}
             past == {i \in closed : NumberValue(d[i + 2]).n <= CurrentYear}
         IN  UNION {{Some(C10_Replace(d, i, t)) : t \in larger(i)} :
                        i \in C9_ExplicitAt(d)}
             \cup UNION {{Some(C10_Replace(d, i + 2, t)) : t \in later(i + 2)} :
                            i \in closed}
             \cup {Some(C10_Replace(d, i + 2, t)) :
                      i \in past, t \in {"atual", "present", "current", "ongoing"}}

\* C10: calculate_total_years never decreases when one experience's period is
\* replaced by a longer one (a larger explicit N; the same start year with a
\* later end year; the same start year with an open-ended end marker that the
\* period pattern accepts, in place of an end year not after the current
\* year), nor when a further experience is appended.
C10_TotalYearsIsMonotonic ==
    pc = "totalled" =>
        /\ \A i \in DOMAIN cand.experiences :
              \A longer \in C10_Longer(cand.experiences[i].duration) :
                  RLe(Get(totalYears),
                      calculate_total_years(
                          [cand.experiences EXCEPT ![i].duration = longer]))
        /\ \A e \in LaterExperienceInputs :
              RLe(Get(totalYears),
                  calculate_total_years(Append(cand.experiences, e)))

----------------------------------------------------------------------------
(* Ranking a list of candidates *)

InitRank ==
    /\ pc = "build"
    /\ weights \in WeightInputs
    /\ job \in JobInputs
    /\ cand = NewCandidate("A")
    /\ skillsResult = None
    /\ subScore = None
    /\ candidates = <<>>
    /\ ranked = None
    /\ NoSkills /\ NoSection /\ NoYears /\ NoEducation /\ NoLoader /\ NoExtract /\ NoPipeline /\ NoRequirements /\ NoNormalizer /\ NoDocument /\ NoContext /\ NoStages /\ NoValidator /\ NoRetry

AddCandidate(c) ==
    /\ pc = "build"
    /\ Len(candidates) < MaxCandidates
    /\ candidates' = Append(candidates,
                            [c EXCEPT !.name = CandidateNames[Len(candidates) + 1]])
    /\ UNCHANGED <<pc, weights, job, cand, skillsResult, subScore, ranked>>
    /\ UNCHANGED <<skillVars, sectionVars, yearsVars, educationVars, loaderVars, extractVars, pipelineVars, requirementsVars, normalizerVars, documentVars, contextVars, stageVars, validatorVars, retryVars>>

RankCandidates ==
    /\ pc = "build"
    /\ candidates' = ScoreAll(weights, candidates, job)
    /\ ranked' = Some(rank_candidates(weights, candidates, job))
    /\ pc' = "ranked"
    /\ UNCHANGED <<weights, job, cand, skillsResult, subScore>>
    /\ UNCHANGED <<skillVars, sectionVars, yearsVars, educationVars, loaderVars, extractVars, pipelineVars, requirementsVars, normalizerVars, documentVars, contextVars, stageVars, validatorVars, retryVars>>

NextRank ==
    \/ \E c \in CandidateInputs : AddCandidate(c)
    \/ RankCandidates

SpecRank == InitRank /\ [][NextRank]_vars

\* C2: rank_candidates returns a permutation of its input, every candidate once,
\* in non-increasing score order, candidates of equal score in their input order.
C2_RankIsStableDescendingPermutation ==
    pc = "ranked" =>
        LET r == Get(ranked)
        IN  \E p \in Permutations(DOMAIN candidates) :
                /\ DOMAIN r = DOMAIN candidates
                /\ \A i \in DOMAIN r : r[i] = candidates[p[i]]
                /\ \A i, j \in DOMAIN r :
                        i < j => /\ RLe(r[j].score, r[i].score)
                                 /\ r[i].score = r[j].score => p[i] < p[j]

\* a ranking that moved candidates and had a tie to keep in input order: scores
\* low, high, high for A, B, C came back as B, C, A
C2_Witness ==
    /\ pc = "ranked"
    /\ Len(candidates) = 3
    /\ RLt(candidates[1].score, candidates[2].score)
    /\ candidates[2].score = candidates[3].score
    /\ [i \in 1..3 |-> Get(ranked)[i].name] = <<"B", "C", "A">>

\* C7: with non-negative weights and confidences in [0,1], each of the four
\* category sub-scores is >= 0, an empty category contributes exactly 0, and a
\* candidate with no skills, experiences or education scores 0.0 and is still
\* in the output of rank_candidates.
C7_SubScoresNonNegative ==
    pc = "ranked" =>
        \A i \in DOMAIN candidates :
            LET c == candidates[i]
                b == c.score_breakdown
            IN  /\ \A k \in {"hard_skills", "soft_skills", "experience", "education"} :
                        RLe(RInt(0), b[k])
                /\ c.hard_skills = <<>> => b.hard_skills = RInt(0)
                /\ c.soft_skills = <<>> => b.soft_skills = RInt(0)
                /\ c.experiences = <<>> => b.experience = RInt(0)
                /\ c.education = <<>> => b.education = RInt(0)
                /\ (/\ c.hard_skills = <<>> /\ c.soft_skills = <<>>
                    /\ c.experiences = <<>> /\ c.education = <<>>) =>
                        /\ c.score = RInt(0)
                        /\ \E k \in DOMAIN Get(ranked) : Get(ranked)[k] = c

\* a ranking of an empty candidate, a candidate whose only education is an
\* incomplete Ensino Médio, and a candidate with a positive score
C7_Witness ==
    /\ pc = "ranked"
    /\ \E i, j, k \in DOMAIN candidates :
          /\ candidates[i].education = <<>> /\ candidates[i].hard_skills = <<>>
          /\ candidates[i].soft_skills = <<>> /\ candidates[i].experiences = <<>>
          /\ candidates[i].score = RInt(0)
          /\ candidates[j].education # <<>>
          /\ \A e \in DOMAIN candidates[j].education :
                candidates[j].education[e].status = "incomplete"
          /\ RLt(RInt(0), candidates[k].score)
          /\ Get(ranked)[Len(candidates)].name = candidates[i].name

----------------------------------------------------------------------------
(* Loading a directory of resumes *)

FileTextInputs ==
    { << [indent |-> FALSE, words |-> <<"Maria", "Silva">>],
         [indent |-> FALSE, words |-> <<"Desenvolvedor", "Python">>] >>,
      << [indent |-> FALSE, words |-> <<"Desenvolvedor", "Python">>] >> }

FileNameInputs == {"Curriculo_10.txt", "curriculo_1.txt", "curriculo_2.txt", "notas.txt"}

\* a file of the directory: readable with some text, or one whose read fails.
\* The text of notas.txt is never read.
FilesNamed(name) ==
    {[name |-> name, readable |-> FALSE, content |-> <<>>]}
    \cup {[name |-> name, readable |-> TRUE, content |-> t] :
             t \in IF name = "notas.txt"
                   THEN {<< [indent |-> FALSE, words |-> <<"Python">>] >>}
                   ELSE FileTextInputs}

\* a file of that name, or none
FileOptions(name) == {{}} \cup {{f} : f \in FilesNamed(name)}

\* directories: at most one file of each name
DirectoryInputs ==
    {UNION {pick[n] : n \in FileNameInputs} :
        pick \in {p \in [FileNameInputs -> UNION {FileOptions(n) : n \in FileNameInputs}] :
                     \A n \in FileNameInputs : p[n] \in FileOptions(n)}}

InitLoad ==
    /\ pc = "load"
    /\ cand = NewCandidate("A")
    /\ cvsDir \in DirectoryInputs
    /\ pending = None
    /\ loaded = None
    /\ loadOutcome = None
    /\ NoScoring /\ NoSkills /\ NoSection /\ NoYears /\ NoEducation /\ NoExtract /\ NoPipeline /\ NoRequirements /\ NoNormalizer /\ NoDocument /\ NoContext /\ NoStages /\ NoValidator /\ NoRetry

\* load_candidates up to its loop: the sorted listing and the empty list
ListDirectory ==
    /\ pc = "load"
    /\ pending' = SortedFiles(cvsDir)
    /\ loaded' = <<>>
    /\ pc' = "loading"
    /\ UNCHANGED <<cand, cvsDir, loadOutcome>>
    /\ UNCHANGED <<scoringVars, skillVars, sectionVars, yearsVars, educationVars, extractVars, pipelineVars, requirementsVars, normalizerVars, documentVars, contextVars, stageVars, validatorVars, retryVars>>

\* one pass of the loop: a file that is not a resume is passed over, a resume
\* is read and appended, and a read that fails leaves load_candidates
LoadFile ==
    /\ pc = "loading"
    /\ pending # <<>>
    /\ LET result == load_one(Head(pending), loaded)
       IN  IF "raised" \in DOMAIN result
           THEN /\ loadOutcome' = result
                /\ pc' = "load_raised"
                /\ UNCHANGED <<pending, loaded>>
           ELSE /\ loaded' = result.returned
                /\ pending' = Tail(pending)
                /\ UNCHANGED <<pc, loadOutcome>>
    /\ UNCHANGED <<cand, cvsDir>>
    /\ UNCHANGED <<scoringVars, skillVars, sectionVars, yearsVars, educationVars, extractVars, pipelineVars, requirementsVars, normalizerVars, documentVars, contextVars, stageVars, validatorVars, retryVars>>

\* return candidates
ReturnCandidates ==
    /\ pc = "loading"
    /\ pending = <<>>
    /\ loadOutcome' = [returned |-> loaded]
    /\ pc' = "load_returned"
    /\ UNCHANGED <<cand, cvsDir, pending, loaded>>
    /\ UNCHANGED <<scoringVars, skillVars, sectionVars, yearsVars, educationVars, extractVars, pipelineVars, requirementsVars, normalizerVars, documentVars, contextVars, stageVars, validatorVars, retryVars>>

NextLoad ==
    \/ ListDirectory
    \/ LoadFile
    \/ ReturnCandidates

SpecLoad == InitLoad /\ [][NextLoad]_vars

\* the resumes of the directory that can be read
C20_ReadableResumes == {f \in cvsDir : FileNameMatch(f.name) # None /\ f.readable}

\* C20: when load_candidates has ended, it has returned a list, and the list
\* holds one candidate for every resume of the directory that could be read,
\* whether or not the read of another resume failed
C20_LoadSkipsUnreadableResumes ==
    pc \in {"load_returned", "load_raised"} =>
        /\ "returned" \in DOMAIN loadOutcome
        /\ \A f \in C20_ReadableResumes :
              \E i \in DOMAIN loadOutcome.returned :
                  /\ loadOutcome.returned[i].file_path = Some(f.name)
                  /\ loadOutcome.returned[i].raw_text = f.content

----------------------------------------------------------------------------
(* Extracting the experiences or the education of a candidate *)

Ln(words) == [indent |-> FALSE, words |-> words]

ExperienceHeader == Ln(<<"Experiência", "Profissional">>)
EducationHeader == Ln(<<"Formação", "Acadêmica">>)
StructuredJob == Ln(<<"Desenvolvedor", "|", "Acme", "|", "2019", "-", "2021">>)
BulletJob == Ln(<<"-", "Analista", "2019", "-", "2021">>)
StructuredDegree == Ln(<<"Bacharelado", "|", "UFAL", "|", "2015", "-", "2019">>)
FutureDegree == Ln(<<"Mestrado", "|", "UFAL", "|", "2030">>)

\* resumes: with no section, with an experience section of one, two and no
\* entry, with an education section of one, two and no entry, with both
\* sections, and a normalized resume whose heading has lost its accent
ResumeInputs ==
    { <<Ln(<<"Python">>)>>,
      <<ExperienceHeader, StructuredJob>>,
      <<ExperienceHeader, StructuredJob, Ln(<<"Python">>), BulletJob>>,
      <<ExperienceHeader, Ln(<<"Analista">>), Ln(<<"Python", "@", "Acme">>),
        Ln(<<"2019", "-", "atual">>)>>,
      <<ExperienceHeader, Ln(<<"SQL">>)>>,
      <<EducationHeader, StructuredDegree>>,
      <<EducationHeader, StructuredDegree, EmptyLine, FutureDegree>>,
      <<EducationHeader, Ln(<<"SQL">>)>>,
      <<ExperienceHeader, StructuredJob, EducationHeader, StructuredDegree>>,
      <<Ln(<<"experiencia", "profissional">>),
        Ln(<<"desenvolvedor", "|", "acme", "|", "2019", "-", "2021">>)>> }

\* the texts a response of the client holds
ResponseInputs ==
    { <<Ln(<<"Desenvolvedor", "|", "Acme", "|", "2019", "-", "2021", "|", "Backend">>),
        Ln(<<"#", "Desenvolvedor", "|", "Acme", "|", "2019">>),
        EmptyLine,
        Ln(<<"Analista", "|", "Acme">>)>>,
      <<Ln(<<"Bacharelado", "|", "UFAL", "|", "2019", "|", "completo">>)>>,
      <<Ln(<<"|", "Acme", "|", "2019">>)>>,
      <<Ln(<<"Direito">>)>>,
      <<Ln(<<"Desenvolvedor", "|", "Acme", "|", "2019">>), Ln(<<"Error">>)>>,
      EmptyText }

\* clients: none, or one whose call raises, returns None, returns a str, or
\* returns an LLMResponse
ClientInputs ==
    {None, Some([call |-> [kind |-> "raises"]]), Some([call |-> [kind |-> "None"]])}
    \cup {Some([call |-> [kind |-> "str", text |-> t]]) : t \in ResponseInputs}
    \cup {Some([call |-> [kind |-> "LLMResponse", content |-> t, success |-> ok]]) :
             t \in ResponseInputs, ok \in BOOLEAN}

InitExtract ==
    /\ pc = "extract"
    /\ \E raw \in ResumeInputs \cup {EmptyText} :
       \E norm \in {None} \cup {Some(t) : t \in ResumeInputs \cup {EmptyText}} :
          cand = [NewCandidate("A") EXCEPT !.raw_text = raw, !.normalized_text = norm]
    /\ extractor \in {"experience", "education"}
    /\ llm_client \in ClientInputs
    /\ text_variants = None
    /\ tried = <<>>
    /\ records = <<>>
    /\ llm_calls = <<>>
    /\ extractOutcome = None
    /\ NoScoring /\ NoSkills /\ NoSection /\ NoYears /\ NoEducation /\ NoLoader /\ NoPipeline /\ NoRequirements /\ NoNormalizer /\ NoDocument /\ NoContext /\ NoStages /\ NoValidator /\ NoRetry

\* extract_from_candidate up to its loop
BuildTextVariants ==
    /\ pc = "extract"
    /\ text_variants' = build_text_variants(cand)
    /\ pc' = IF text_variants' = <<>> THEN "fallback" ELSE "regex"
    /\ UNCHANGED <<cand, extractor, llm_client, tried, records, llm_calls, extractOutcome>>
    /\ UNCHANGED <<scoringVars, skillVars, sectionVars, yearsVars, educationVars, loaderVars, pipelineVars, requirementsVars, normalizerVars, documentVars, contextVars, stageVars, validatorVars, retryVars>>

\* one pass of the loop: the regex extraction on the next variant, and the
\* break when it gives a record
ExtractWithRegex ==
    /\ pc = "regex"
    /\ LET variant == text_variants[Len(tried) + 1]
       IN  /\ records' = extract_with_regex(extractor, variant)
           /\ tried' = Append(tried, variant)
    /\ pc' = IF records' # <<>> \/ Len(tried') = Len(text_variants)
             THEN "fallback" ELSE "regex"
    /\ UNCHANGED <<cand, extractor, llm_client, text_variants, llm_calls, extractOutcome>>
    /\ UNCHANGED <<scoringVars, skillVars, sectionVars, yearsVars, educationVars, loaderVars, pipelineVars, requirementsVars, normalizerVars, documentVars, contextVars, stageVars, validatorVars, retryVars>>

\* the fallback: one call of the client, and the return of what it gave
ExtractWithLLM ==
    /\ pc = "fallback"
    /\ fallback_wanted(records, llm_client)
    /\ llm_calls' = Append(llm_calls, fallback_text(cand))
    /\ LET result == extract_with_llm(extractor, llm_client)
       IN  IF "raised" \in DOMAIN result
           THEN /\ extractOutcome' = result
                /\ pc' = "extract_raised"
                /\ UNCHANGED records
           ELSE /\ records' = result.returned
                /\ extractOutcome' = [returned |-> result.returned]
                /\ pc' = "extract_returned"
    /\ UNCHANGED <<cand, extractor, llm_client, text_variants, tried>>
    /\ UNCHANGED <<scoringVars, skillVars, sectionVars, yearsVars, educationVars, loaderVars, pipelineVars, requirementsVars, normalizerVars, documentVars, contextVars, stageVars, validatorVars, retryVars>>

\* the return with no fallback
ReturnRecords ==
    /\ pc = "fallback"
    /\ ~fallback_wanted(records, llm_client)
    /\ extractOutcome' = [returned |-> records]
    /\ pc' = "extract_returned"
    /\ UNCHANGED <<cand, extractor, llm_client, text_variants, tried, records, llm_calls>>
    /\ UNCHANGED <<scoringVars, skillVars, sectionVars, yearsVars, educationVars, loaderVars, pipelineVars, requirementsVars, normalizerVars, documentVars, contextVars, stageVars, validatorVars, retryVars>>

NextExtract ==
    \/ BuildTextVariants
    \/ ExtractWithRegex
    \/ ExtractWithLLM
    \/ ReturnRecords

SpecExtract == InitExtract /\ [][NextExtract]_vars

\* the role reads as a role: it has a role keyword, or 5 to 100 characters of
\* which at most 5 are odd
C16_Plausible(role) ==
    \/ \E keyword \in COMMON_ROLES : \E i \in DOMAIN role : keyword \in TermsIn(LowerOf(role[i]))
    \/ /\ 5 <= TextLen(role) /\ TextLen(role) <= 100
       /\ Cardinality({i \in DOMAIN role : OddChars(role[i]) > 0}) <= 5

\* the year is one token of four digits between 1960 and the current year plus 5
C16_PlausibleYear(year) ==
    /\ Len(year) = 1
    /\ IsYearToken(year[1])
    /\ 1960 <= EducationYearValue(year[1])
    /\ EducationYearValue(year[1]) <= CurrentYear + 5

\* C16: every record that extract_from_candidate returns, from the regex path
\* or from the LLM fallback, satisfies the constraints of the data model: an
\* Experience has a non-empty role that reads as a role, an Education has one
\* of the three statuses and no year or a plausible one
C16_ReturnedRecordsAreValid ==
    (pc = "extract_returned") =>
        \A i \in DOMAIN extractOutcome.returned :
            LET record == extractOutcome.returned[i]
            IN  IF extractor = "experience"
                THEN record.role # <<>> /\ C16_Plausible(record.role)
                ELSE /\ record.status \in {<<"completed">>, <<"in_progress">>,
                                           <<"incomplete">>}
                     /\ \/ record.completion_year = None
                        \/ C16_PlausibleYear(Get(record.completion_year))

\* the texts of the candidate that are not empty: the raw text, then the
\* normalized text if it is another one
C17_Texts ==
    LET raw == cand.raw_text
        norm == cand.normalized_text
    IN  (IF raw = EmptyText THEN <<>> ELSE <<raw>>)
        \o (IF norm = None \/ norm = Some(EmptyText) \/ norm = Some(raw)
            THEN <<>> ELSE <<Get(norm)>>)

C18_Fields(line) == SplitAtBars(line.words)
C18_GivesRecord(line, least) ==
    /\ line.words # <<>>
    /\ line.words[1] # "#"
    /\ Len(C18_Fields(line)) >= least

\* the lines of the content that give a record, in their order
C18_RecordLines(content, least) ==
    KeepAt(content, {i \in DOMAIN content : C18_GivesRecord(content[i], least)})

\* C18: when the fallback is taken and the call of the client returns an
\* LLMResponse that succeeded, extract_from_candidate returns one record for
\* every line of the content that is not blank, does not start with '#' and
\* has at least 3 fields (experience) or 2 (education), in the order of the
\* lines, the first field the role or degree and the second the company or
\* institution
C18_OneRecordPerContentLine ==
    ( /\ pc \in {"extract_returned", "extract_raised"}
      /\ llm_calls # <<>>
      /\ Get(llm_client).call.kind = "LLMResponse"
      /\ Get(llm_client).call.success ) =>
        LET lines == C18_RecordLines(Get(llm_client).call.content,
                                     IF extractor = "experience" THEN 3 ELSE 2)
        IN  /\ "returned" \in DOMAIN extractOutcome
            /\ Len(extractOutcome.returned) = Len(lines)
            /\ \A i \in DOMAIN lines :
                  LET record == extractOutcome.returned[i]
                      fields == C18_Fields(lines[i])
                  IN  IF extractor = "experience"
                      THEN /\ record.role = fields[1]
                           /\ record.company = OrNone(fields[2])
                           /\ record.duration = OrNone(fields[3])
                      ELSE /\ record.degree = fields[1]
                           /\ record.institution = OrNone(fields[2])

\* the call of the client fails: it raises, it returns None, an LLMResponse
\* that failed, an empty str, or a str of which no line gives a record
C19_CallFails ==
    LET call == Get(llm_client).call
    IN  \/ call.kind \in {"raises", "None"}
        \/ call.kind = "LLMResponse" /\ ~call.success
        \/ /\ call.kind = "str"
           /\ C18_RecordLines(call.text, IF extractor = "experience" THEN 3 ELSE 2) = <<>>

\* C19: when the fallback is taken and the call of the client fails,
\* extract_from_candidate raises nothing and returns the empty list
C19_FailedFallbackReturnsEmptyList ==
    ( /\ pc \in {"extract_returned", "extract_raised"}
      /\ llm_calls # <<>>
      /\ C19_CallFails ) =>
        /\ pc = "extract_returned"
        /\ "returned" \in DOMAIN extractOutcome
        /\ extractOutcome.returned = <<>>

\* extract_from_candidate has returned after a call of the client that raised
C19_Witness ==
    /\ pc = "extract_returned"
    /\ llm_calls # <<>>
    /\ Get(llm_client).call.kind = "raises"

----------------------------------------------------------------------------
(* The pipeline: parsing, skill extraction, ranking *)

\* remove_accents on one lower-case word
remove_accents_word(t) ==
    CASE t = "experiência" -> "experiencia"
      [] t = "formação" -> "formacao"
      [] t = "acadêmica" -> "academica"
      [] t = "obrigatórios" -> "obrigatorios"
      [] OTHER -> t

\* TextNormalizer().normalize with its default options: every word in lower
\* case and without accents, every line stripped, the line breaks kept
normalize_text(text) ==
    [i \in DOMAIN text |->
        [indent |-> FALSE,
         words |-> [k \in DOMAIN text[i].words |->
                       remove_accents_word(LowerOf(text[i].words[k]))]]]

\* the keyword parameters of ParserService.__init__
ParserServiceParameters ==
    {"loader", "normalizer", "extract_experience", "extract_education", "llm_client"}

\* ParserService(**kwargs): the service, or the TypeError of a keyword that is
\* not a parameter
ParserService_init(kwargs) ==
    IF ~(DOMAIN kwargs \subseteq ParserServiceParameters)
    THEN [raised |-> "TypeError"]
    ELSE [returned |->
             [extract_experience |-> DictGet(kwargs, "extract_experience", TRUE),
              extract_education |-> DictGet(kwargs, "extract_education", TRUE),
              llm_client |-> DictGet(kwargs, "llm_client", None)]]

\* FileLoader.load_job; the description is kept as the words of the text
load_job(text) ==
    LET lines == NonEmptyLines(text)
    IN  [title |-> IF lines # <<>> THEN lines[1] ELSE <<"Vaga">>,
         description |-> AllWords(text),
         raw_text |-> text,
         requirements |-> <<>>,
         weights |-> [hard_skills |-> Rat(60, 100), soft_skills |-> Rat(20, 100),
                      experience |-> Rat(15, 100), education |-> Rat(5, 100)]]

\* the loop of load_candidates from the file at the head of the listing on
RECURSIVE LoadAll(_, _)
LoadAll(files, so_far) ==
    IF files = <<>> THEN [returned |-> so_far]
    ELSE LET continue_after(result) ==
                 IF "raised" \in DOMAIN result THEN result
                 ELSE LoadAll(Tail(files), result.returned)
         IN  continue_after(load_one(Head(files), so_far))

\* FileLoader.load_candidates
load_candidates(dir) == LoadAll(SortedFiles(dir), <<>>)

\* the first result of the regex extraction over the variants that is not empty
RECURSIVE FirstRecords(_, _)
FirstRecords(which, variants) ==
    IF variants = <<>> THEN <<>>
    ELSE LET first_of(found) ==
                 IF found # <<>> THEN found ELSE FirstRecords(which, Tail(variants))
         IN  first_of(extract_with_regex(which, Head(variants)))

\* extract_from_candidate of the extractor `which`: the list it returns
extract_records(which, c, client) ==
    LET records_of(found) ==
            IF fallback_wanted(found, client) THEN extract_with_llm(which, client).returned
            ELSE found
    IN  records_of(FirstRecords(which, build_text_variants(c)))

\* an Education as the scoring engine reads it: the status is one word
ScoredEducation(e) == [e EXCEPT !.status = e.status[1]]

\* the body of the loop of ParserService.parse
parse_candidate(service, c) ==
    LET normalized_cand == [c EXCEPT !.normalized_text = Some(normalize_text(c.raw_text))]
        parsed(experiences, educations) ==
            [normalized_cand EXCEPT
                !.experiences = experiences,
                !.education = IF service.extract_education
                               THEN [i \in DOMAIN educations |-> ScoredEducation(educations[i])]
                               ELSE educations]
    IN  parsed(IF service.extract_experience
               THEN extract_records("experience", normalized_cand, service.llm_client)
               ELSE c.experiences,
               IF service.extract_education
               THEN extract_records("education", normalized_cand, service.llm_client)
               ELSE c.education)

\* ParserService.parse: (job, candidates), or the exception of the loader
parse(service, job_text, dir) ==
    LET parsed_from(loaded_candidates) ==
            IF "raised" \in DOMAIN loaded_candidates THEN loaded_candidates
            ELSE [returned |->
                     [job |-> load_job(job_text),
                      candidates |->
                         [i \in DOMAIN loaded_candidates.returned |->
                             parse_candidate(service, loaded_candidates.returned[i])]]]
    IN  parsed_from(load_candidates(dir))

\* parsing.service.parse_all
parse_all(job_text, dir, extract_experience, extract_education) ==
    LET service == ParserService_init(
                       [extract_experience |-> extract_experience,
                        extract_education |-> extract_education,
                        extract_requirements |-> TRUE,
                        llm_client |-> None])
    IN  IF "raised" \in DOMAIN service THEN service
        ELSE parse(service.returned, job_text, dir)

\* SkillExtractor.extract_from_candidate on a candidate whose texts are lines:
\* the patterns see the words of the text
extract_skills(config, c) ==
    AddSkills(c, extract_from_text(config, AllWords(Get(c.normalized_text))))

PipelineJobInputs ==
    { <<Ln(<<"Vaga", "Desenvolvedor", "Python">>), EmptyLine,
        Ln(<<"Requisitos", "Obrigatórios">>), Ln(<<"-", "Python">>)>>,
      <<EmptyLine, Ln(<<"Requisitos", "Obrigatórios">>), Ln(<<"-", "Python">>)>>,
      EmptyText }

\* the one-paragraph resume with a skill and a phrase of years of experience
ParagraphResume ==
    <<Ln(<<"Tenho", "5", "anos", "de", "experiência", "com", "Python">>)>>

PipelineResumeInputs ==
    { ParagraphResume,
      <<Ln(<<"Maria", "Silva">>), ExperienceHeader, StructuredJob, Ln(<<"Python">>)>>,
      <<ExperienceHeader, StructuredJob, EducationHeader, StructuredDegree>>,
      <<Ln(<<"SQL">>)>> }

\* skills.json: the dictionary of the skill extractor
PipelineSkillsConfig ==
    [hard_skills |-> << <<"linguagens", <<"Python", "SQL">>>> >>,
     soft_skills |-> << <<"interpessoais", <<"Comunicação">>>> >>,
     synonyms |-> <<>>]

\* a resume file of that name, or none
PipelineFileOptions(name) ==
    {{}} \cup {{[name |-> name, readable |-> TRUE, content |-> t]} :
                  t \in PipelineResumeInputs}

\* directories of at most two resumes
PipelineDirectoryInputs ==
    {a \cup b : a \in PipelineFileOptions("curriculo_1.txt"),
                b \in PipelineFileOptions("curriculo_2.txt")}

InitPipeline ==
    /\ pc = "start"
    /\ entry \in {"parse_all", "ParserService"}
    /\ parseOptions \in [extract_experience : BOOLEAN, extract_education : BOOLEAN]
    /\ jobFile \in PipelineJobInputs
    /\ cvsDir \in PipelineDirectoryInputs
    /\ pending = None /\ loaded = None /\ loadOutcome = None
    /\ pipelineOutcome = None
    /\ cand = NewCandidate("A")
    /\ weights = CHOOSE w \in WeightInputs : DOMAIN w.skill_weights = {}
    /\ skillsConfig = PipelineSkillsConfig
    /\ lastCall = None /\ extracted = None
    /\ job = None
    /\ skillsResult = None
    /\ subScore = None
    /\ candidates = <<>>
    /\ ranked = None
    /\ NoSection /\ NoYears /\ NoEducation /\ NoExtract /\ NoRequirements /\ NoNormalizer /\ NoDocument /\ NoContext /\ NoStages /\ NoValidator /\ NoRetry

\* the parsing stage has ended with `result`
ParsingEnds(result) ==
    IF "raised" \in DOMAIN result
    THEN /\ pipelineOutcome' = result
         /\ pc' = "pipeline_raised"
         /\ UNCHANGED <<job, candidates>>
    ELSE /\ job' = Some(result.returned.job)
         /\ candidates' = result.returned.candidates
         /\ pc' = "parsed"
         /\ UNCHANGED pipelineOutcome

\* job, candidates = parse_all(job_path, cvs_dir, ...)
ParseAll ==
    /\ pc = "start"
    /\ entry = "parse_all"
    /\ ParsingEnds(parse_all(jobFile, cvsDir, parseOptions.extract_experience,
                             parseOptions.extract_education))
    /\ UNCHANGED <<cand, weights, skillsResult, subScore, ranked>>
    /\ UNCHANGED <<entry, parseOptions, jobFile>>
    /\ UNCHANGED <<skillVars, sectionVars, yearsVars, educationVars, loaderVars, extractVars, requirementsVars, normalizerVars, documentVars, contextVars, stageVars, validatorVars, retryVars>>

\* job, candidates = ParserService(...).parse(job_path, cvs_dir)
Parse ==
    /\ pc = "start"
    /\ entry = "ParserService"
    /\ ParsingEnds(parse(ParserService_init(parseOptions).returned, jobFile, cvsDir))
    /\ UNCHANGED <<cand, weights, skillsResult, subScore, ranked>>
    /\ UNCHANGED <<entry, parseOptions, jobFile>>
    /\ UNCHANGED <<skillVars, sectionVars, yearsVars, educationVars, loaderVars, extractVars, requirementsVars, normalizerVars, documentVars, contextVars, stageVars, validatorVars, retryVars>>

\* for candidate in candidates: skill_extractor.extract_from_candidate(candidate)
ExtractSkills ==
    /\ pc = "parsed"
    /\ candidates' = [i \in DOMAIN candidates |-> extract_skills(skillsConfig, candidates[i])]
    /\ pc' = "skills"
    /\ UNCHANGED <<cand, weights, job, skillsResult, subScore, ranked>>
    /\ UNCHANGED pipelineVars
    /\ UNCHANGED <<skillVars, sectionVars, yearsVars, educationVars, loaderVars, extractVars, requirementsVars, normalizerVars, documentVars, contextVars, stageVars, validatorVars, retryVars>>

\* ranked = scoring_engine.rank_candidates(candidates, job)
RankParsedCandidates ==
    /\ pc = "skills"
    /\ candidates' = ScoreAll(weights, candidates, job)
    /\ ranked' = Some(rank_candidates(weights, candidates, job))
    /\ pipelineOutcome' = [returned |-> rank_candidates(weights, candidates, job)]
    /\ pc' = "pipeline_returned"
    /\ UNCHANGED <<cand, weights, job, skillsResult, subScore>>
    /\ UNCHANGED <<entry, parseOptions, jobFile>>
    /\ UNCHANGED <<skillVars, sectionVars, yearsVars, educationVars, loaderVars, extractVars, requirementsVars, normalizerVars, documentVars, contextVars, stageVars, validatorVars, retryVars>>

NextPipeline ==
    \/ ParseAll
    \/ Parse
    \/ ExtractSkills
    \/ RankParsedCandidates

SpecPipeline == InitPipeline /\ [][NextPipeline]_vars

\* the job lists the skill under its required section, the directory holds the
\* one-paragraph resume alone, and the parsing stage is entered by parse_all
C21_Scenario ==
    /\ entry = "parse_all"
    /\ parseOptions = [extract_experience |-> TRUE, extract_education |-> TRUE]
    /\ \E i \in DOMAIN jobFile :
          /\ i < Len(jobFile)
          /\ jobFile[i].words = <<"Requisitos", "Obrigatórios">>
          /\ jobFile[i + 1].words = <<"-", "Python">>
    /\ Cardinality(cvsDir) = 1
    /\ \A f \in cvsDir : f.content = ParagraphResume

\* C21: in that scenario the pipeline ends without an error and gives one
\* candidate, whose hard skills are python alone and whose breakdown has
\* positive hard_skills and experience
C21_PipelineGivesScoredCandidate ==
    (C21_Scenario /\ pc \in {"pipeline_raised", "pipeline_returned"}) =>
        /\ "returned" \in DOMAIN pipelineOutcome
        /\ Len(pipelineOutcome.returned) = 1
        /\ LET c == pipelineOutcome.returned[1]
           IN  /\ [i \in DOMAIN c.hard_skills |-> c.hard_skills[i].name] = <<"python">>
               /\ RLt(RInt(0), c.score_breakdown.hard_skills)
               /\ RLt(RInt(0), c.score_breakdown.experience)

----------------------------------------------------------------------------
(* RequirementsExtractor: the requirements of a job *)

\* A value of the skills configuration is a dict of category -> list, written
\* [dict |-> <<category, list>> pairs], or a plain list, written [list |-> items].

\* known_hard_skills: the items of every category, if hard_skills is a dict
known_hard_skills(config) ==
    IF "dict" \in DOMAIN config.hard_skills
    THEN LET items == GroupItems(config.hard_skills.dict)
         IN  {LowerOf(items[i]) : i \in DOMAIN items}
    ELSE {}

\* known_soft_skills: set(s.lower() for s in config["soft_skills"]); iterating
\* a dict gives its keys
known_soft_skills(config) ==
    LET soft == config.soft_skills
    IN  IF "dict" \in DOMAIN soft
        THEN {LowerOf(soft.dict[i][1]) : i \in DOMAIN soft.dict}
        ELSE {LowerOf(soft.list[i]) : i \in DOMAIN soft.list}

\* section_patterns, in the order of the dict: the importance and the words of
\* each alternative of its pattern
section_patterns ==
    << <<"required", {<<"requisitos?", "(obrigat[oó]rios?|essenciais?|necess[aá]rios?)">>}>>,
       <<"preferred", {<<"requisitos?", "(desej[aá]veis?|preferenciais?)">>}>>,
       <<"nice_to_have", {<<"diferenciais?">>, <<"nice", "to", "have">>,
                          <<"seria", "um", "plus">>}>> >>

\* the pattern words that make up a word of the text from its start to its end
FragmentsWhole(t) == FragmentsAtStart(t) \cap FragmentsAtEnd(t)

\* pattern.search(line) for one alternative: its first word ends a word of the
\* line, its last word starts a later one, and the words between match whole
SearchPhrase(alt, words) ==
    \E i \in DOMAIN words :
        IF Len(alt) = 1 THEN alt[1] \in FragmentsIn(words[i])
        ELSE /\ i + Len(alt) - 1 <= Len(words)
             /\ alt[1] \in FragmentsAtEnd(words[i])
             /\ alt[Len(alt)] \in FragmentsAtStart(words[i + Len(alt) - 1])
             /\ \A k \in 2..(Len(alt) - 1) : alt[k] \in FragmentsWhole(words[i + k - 1])

\* the importance of the first pattern of section_patterns that the line
\* matches, from pattern k on, or None
RECURSIVE MatchedSection(_, _)
MatchedSection(line, k) ==
    IF k > Len(section_patterns) THEN None
    ELSE IF \E alt \in section_patterns[k][2] : SearchPhrase(alt, line.words)
         THEN Some(section_patterns[k][1])
         ELSE MatchedSection(line, k + 1)

\* if current_section and current_lines: sections[current_section] = "\n".join(current_lines)
SaveSection(sections, current_section, current_lines) ==
    IF current_section # None /\ current_lines # <<>>
    THEN OrderedSet(sections, Get(current_section), current_lines)
    ELSE sections

\* the loop of _identify_sections from line i on, and the save after it
RECURSIVE IdentifyFrom(_, _, _, _, _)
IdentifyFrom(lines, i, sections, current_section, current_lines) ==
    IF i > Len(lines) THEN SaveSection(sections, current_section, current_lines)
    ELSE LET matched == MatchedSection(lines[i], 1)
         IN  IF matched # None
             THEN IdentifyFrom(lines, i + 1,
                               SaveSection(sections, current_section, current_lines),
                               matched, <<>>)
             ELSE IdentifyFrom(lines, i + 1, sections, current_section,
                               IF current_section # None
                               THEN Append(current_lines, lines[i]) ELSE current_lines)

\* _identify_sections: importance -> the lines of the section, in dict order
identify_sections(text) == IdentifyFrom(text, 1, <<>>, None, <<>>)

\* the skill terms that \b term \b finds in a lower-case word of the text
WholeWordsIn(t) ==
    CASE t = "python" -> {"python"}
      [] t = "python," -> {"python"}
      [] t = "java" -> {"java"}
      [] t = "comunicação" -> {"comunicação"}
      [] t = "interpessoais" -> {"interpessoais"}
      [] t = "linguagens" -> {"linguagens"}
      [] OTHER -> {}

\* re.search(r"\b" + re.escape(skill) + r"\b", text_lower)
word_search(skill, text_lower) ==
    \E i \in DOMAIN text_lower : skill \in WholeWordsIn(text_lower[i])

\* the orders in which the loop over a set can visit its elements
Orderings(set) ==
    {order \in [1..Cardinality(set) -> set] :
        \A i, j \in DOMAIN order : order[i] = order[j] => i = j}

\* JobRequirement(skill=skill, importance=importance, weight=1.0, category=category)
JobRequirement(skill, importance, category) ==
    [skill |-> skill, importance |-> importance, weight |-> RInt(1), category |-> category]

\* _extract_requirements_from_section: the lists it can return, one for each
\* order in which the two sets are visited
extract_requirements_from_section(config, section_text, importance) ==
    LET text_lower == Lower(AllWords(section_text))
        hard == {skill \in known_hard_skills(config) : word_search(skill, text_lower)}
        soft == {skill \in known_soft_skills(config) : word_search(skill, text_lower)}
    IN  {[i \in DOMAIN h |-> JobRequirement(h[i], importance, "hard")]
            \o [i \in DOMAIN so |-> JobRequirement(so[i], importance, "soft")] :
         h \in Orderings(hard), so \in Orderings(soft)}

\* the loop of extract_from_job over the sections: the lists it can append
RECURSIVE RequirementLists(_, _)
RequirementLists(config, sections) ==
    IF sections = <<>> THEN {<<>>}
    ELSE {first \o rest :
            first \in extract_requirements_from_section(config, Head(sections)[2],
                                                        Head(sections)[1]),
            rest \in RequirementLists(config, Tail(sections))}

\* extract_from_job: the lists job.requirements can hold after it
extract_from_job(config, j) ==
    {j.requirements \o appended :
        appended \in RequirementLists(config, identify_sections(j.raw_text))}

MaxJobLines == 3
MaxExtractCalls == 2

\* the lines of a job text: the three headings, and lines that name skills
JobLineInputs ==
    { Ln(<<"Requisitos", "Obrigatórios">>),
      Ln(<<"Requisitos", "Desejáveis">>),
      Ln(<<"Diferenciais:">>),
      Ln(<<"-", "Python,", "JavaScript">>),
      Ln(<<"Java", "e", "Comunicação">>),
      Ln(<<"Habilidades", "Interpessoais">>) }

JobTextInputs == UNION {[1..n -> JobLineInputs] : n \in 1..MaxJobLines}

\* skills.json: the nested configuration, and one with plain lists
RequirementsConfigInputs ==
    { [hard_skills |-> hard, soft_skills |-> soft] :
        hard \in { [dict |-> << <<"Linguagens", <<"Python", "Java">>>> >>],
                   [list |-> <<"Python", "Java">>] },
        soft \in { [dict |-> << <<"Interpessoais", <<"Comunicação">>>> >>],
                   [list |-> <<"Comunicação">>] } }

InitRequirements ==
    /\ pc = "requirements"
    /\ cand = NewCandidate("A")
    /\ reqConfig \in RequirementsConfigInputs
    /\ \E text \in JobTextInputs : reqJob = load_job(text)
    /\ reqCalls = 0
    /\ NoScoring /\ NoSkills /\ NoSection /\ NoYears /\ NoEducation /\ NoLoader /\ NoNormalizer /\ NoDocument /\ NoContext /\ NoStages /\ NoValidator /\ NoRetry
    /\ NoExtract /\ NoPipeline

\* RequirementsExtractor(config).extract_from_job(job)
ExtractFromJob ==
    /\ reqCalls < MaxExtractCalls
    /\ \E requirements \in extract_from_job(reqConfig, reqJob) :
          reqJob' = [reqJob EXCEPT !.requirements = requirements]
    /\ reqCalls' = reqCalls + 1
    /\ UNCHANGED <<pc, cand, reqConfig>>
    /\ UNCHANGED <<scoringVars, skillVars, sectionVars, yearsVars, educationVars, loaderVars, extractVars, pipelineVars, normalizerVars, documentVars, contextVars, stageVars, validatorVars, retryVars>>

NextRequirements == ExtractFromJob

SpecRequirements == InitRequirements /\ [][NextRequirements]_vars

\* the configured skill terms with their categories: the items of every
\* category of the nested hard and soft dictionaries
C22_Terms ==
    LET hard == GroupItems(reqConfig.hard_skills.dict)
        soft == GroupItems(reqConfig.soft_skills.dict)
    IN  {<<LowerOf(hard[i]), "hard">> : i \in DOMAIN hard}
        \cup {<<LowerOf(soft[i]), "soft">> : i \in DOMAIN soft}

\* the requirements the job text asks for: one for every importance tier and
\* term that occurs as a whole word in the lower-cased text of the tier's section
C22_Expected ==
    LET sections == identify_sections(reqJob.raw_text)
        pairs == {p \in C22_Terms \X DOMAIN sections :
                     word_search(p[1][1], Lower(AllWords(sections[p[2]][2])))}
    IN  {JobRequirement(p[1][1], sections[p[2]][1], p[1][2]) : p \in pairs}

\* C22: with the nested configuration, a call of extract_from_job leaves the
\* requirements the job had and appends exactly one JobRequirement of weight
\* 1.0 for every importance tier and configured term, hard or soft, that
\* occurs as a whole word in the text of the tier's section, with the category
\* of the dictionary the term came from
C22_AppendsOneRequirementPerTierAndTerm ==
    [][ ( /\ reqCalls' # reqCalls
          /\ "dict" \in DOMAIN reqConfig.hard_skills
          /\ "dict" \in DOMAIN reqConfig.soft_skills ) =>
            LET before == reqJob.requirements
                after == reqJob'.requirements
                appended == SubSeq(after, Len(before) + 1, Len(after))
            IN  /\ Len(after) >= Len(before)
                /\ SubSeq(after, 1, Len(before)) = before
                /\ {appended[i] : i \in DOMAIN appended} = C22_Expected
                /\ Len(appended) = Cardinality(C22_Expected)
      ]_vars

----------------------------------------------------------------------------
(* TextNormalizer.normalize, character by character *)

\* Here a text is a sequence of characters. A character outside Latin-1 is
\* written by its code point: "U+0301" is the combining acute accent, "U+2122"
\* the trade mark sign.
Characters == {"a", "É", "é", " ", "\t", "\n", "U+2122"}

\* str.lower() on one character
lower_char(c) ==
    CASE c = "É" -> "é"
      [] c = "E" -> "e"
      [] c = "T" -> "t"
      [] c = "M" -> "m"
      [] OTHER -> c

\* unicodedata.normalize("NFKD", c) on one character
NFKD(c) ==
    CASE c = "É" -> <<"E", "U+0301">>
      [] c = "é" -> <<"e", "U+0301">>
      [] c = "U+2122" -> <<"T", "M">>
      [] OTHER -> <<c>>

\* unicodedata.combining(c) is not 0
combining(c) == c = "U+0301"

\* remove_accents
remove_accents(text) ==
    LET nfkd == JoinWith([i \in DOMAIN text |-> NFKD(text[i])], <<>>)
    IN  SelectSeq(nfkd, LAMBDA c : ~combining(c))

\* text.split("\n")
RECURSIVE SplitLines(_)
SplitLines(text) ==
    IF \A i \in DOMAIN text : text[i] # "\n" THEN <<text>>
    ELSE LET k == CHOOSE i \in DOMAIN text :
                      text[i] = "\n" /\ \A j \in 1..(i - 1) : text[j] # "\n"
         IN  <<SubSeq(text, 1, k - 1)>> \o SplitLines(SubSeq(text, k + 1, Len(text)))

IsBlank(c) == c \in {" ", "\t"}

\* re.sub(r"[ \t]+", " ", line)
RECURSIVE CollapseBlanks(_)
CollapseBlanks(line) ==
    IF line = <<>> THEN <<>>
    ELSE IF IsBlank(Head(line))
         THEN LET rest == CollapseBlanks(Tail(line))
              IN  IF rest # <<>> /\ Head(rest) = " " THEN rest ELSE <<" ">> \o rest
         ELSE <<Head(line)>> \o CollapseBlanks(Tail(line))

\* line.strip() on a line whose white space is blanks
RECURSIVE StripBlanks(_)
StripBlanks(line) ==
    IF line = <<>> THEN <<>>
    ELSE IF IsBlank(Head(line)) THEN StripBlanks(Tail(line))
    ELSE IF IsBlank(line[Len(line)]) THEN StripBlanks(SubSeq(line, 1, Len(line) - 1))
    ELSE line

\* _normalize_whitespace
normalize_whitespace(text) ==
    LET lines == SplitLines(text)
    IN  JoinWith([i \in DOMAIN lines |-> StripBlanks(CollapseBlanks(lines[i]))], <<"\n">>)

\* TextNormalizer.normalize
normalize(options, text) ==
    LET lowered == IF options.lower
                   THEN [i \in DOMAIN text |-> lower_char(text[i])] ELSE text
        unaccented == IF options.remove_acc THEN remove_accents(lowered) ELSE lowered
    IN  IF options.collapse_ws THEN normalize_whitespace(unaccented) ELSE unaccented

MaxChars == 3
MaxNormalizeCalls == 2

CharTextInputs == UNION {[1..n -> Characters] : n \in 0..MaxChars}

InitNormalize ==
    /\ pc = "normalize"
    /\ cand = NewCandidate("A")
    /\ normOptions \in [lower : BOOLEAN, remove_acc : BOOLEAN, collapse_ws : BOOLEAN]
    /\ normInput \in CharTextInputs
    /\ normOutputs = <<>>
    /\ NoScoring /\ NoSkills /\ NoSection /\ NoYears /\ NoEducation /\ NoLoader /\ NoDocument /\ NoContext /\ NoStages /\ NoValidator /\ NoRetry
    /\ NoExtract /\ NoPipeline /\ NoRequirements

\* normalizer.normalize(text), text the input or the result of the call before
Normalize ==
    /\ Len(normOutputs) < MaxNormalizeCalls
    /\ normOutputs' = Append(normOutputs,
                             normalize(normOptions,
                                       IF normOutputs = <<>> THEN normInput
                                       ELSE normOutputs[Len(normOutputs)]))
    /\ UNCHANGED <<pc, cand, normOptions, normInput>>
    /\ UNCHANGED <<scoringVars, skillVars, sectionVars, yearsVars, educationVars, loaderVars, extractVars, pipelineVars, requirementsVars, documentVars, contextVars, stageVars, validatorVars, retryVars>>

NextNormalize == Normalize

SpecNormalize == InitNormalize /\ [][NextNormalize]_vars

\* C23: for every text and every combination of the options, normalizing the
\* normalized text gives the normalized text again
C23_NormalizeIsIdempotent ==
    \A k \in 2..Len(normOutputs) : normOutputs[k] = normOutputs[k - 1]

----------------------------------------------------------------------------
(* DocumentExtractor.extract_text *)

\* Texts are sequences of characters; "U+00A0" is the no-break space.

SUPPORTED_EXTENSIONS == {".txt", ".pdf", ".docx"}

\* Path(path).suffix.lower()
suffix_lower(name) ==
    CASE name = "cv.txt" -> ".txt"
      [] name = "CV.TXT" -> ".txt"
      [] name = "cv.Pdf" -> ".pdf"
      [] name = "cv.docx" -> ".docx"
      [] name = "cv.md" -> ".md"
      [] name = "cv.txt.bak" -> ".bak"
      [] name = "cv" -> ""

\* text.replace("\r\n", "\n").replace("\r", "\n")
RECURSIVE ReplaceLineEndings(_)
ReplaceLineEndings(text) ==
    IF text = <<>> THEN <<>>
    ELSE IF Head(text) = "\r"
         THEN IF Len(text) > 1 /\ text[2] = "\n"
              THEN <<"\n">> \o ReplaceLineEndings(SubSeq(text, 3, Len(text)))
              ELSE <<"\n">> \o ReplaceLineEndings(Tail(text))
         ELSE <<Head(text)>> \o ReplaceLineEndings(Tail(text))

\* c.isspace()
IsSpace(c) == c \in {" ", "\t", "\n", "\r", "U+00A0"}

\* text.strip()
RECURSIVE StripSpace(_)
StripSpace(text) ==
    IF text = <<>> THEN <<>>
    ELSE IF IsSpace(Head(text)) THEN StripSpace(Tail(text))
    ELSE IF IsSpace(text[Len(text)]) THEN StripSpace(SubSeq(text, 1, Len(text) - 1))
    ELSE text

\* the text with its line endings replaced and nothing stripped
post_process_unstripped(text) == ReplaceLineEndings(text)

\* _post_process
post_process(text) == StripSpace(ReplaceLineEndings(text))

\* _default_text_reader: read_text translates the line endings as it reads
default_text_reader(file) == [returned |-> ReplaceLineEndings(file.text)]

\* (page.extract_text() or "").replace(no-break space, " ").strip()
page_text(page) ==
    LET raw == IF page = None THEN <<>> ELSE Get(page)
    IN  StripSpace([i \in DOMAIN raw |-> IF raw[i] = "U+00A0" THEN " " ELSE raw[i]])

\* the texts that are not empty, in their order
NonEmpty(texts) == SelectSeq(texts, LAMBDA t : t # <<>>)

\* _extract_pdf
extract_pdf(file, env) ==
    IF ~env.pdfplumber THEN [raised |-> "RuntimeError"]
    ELSE [returned |->
             JoinWith(NonEmpty([i \in DOMAIN file.pages |-> page_text(file.pages[i])]),
                      <<"\n">>)]

\* the rows of one table: the stripped cells that are not empty, joined by a space
RowChunks(rows) ==
    NonEmpty([r \in DOMAIN rows |->
                 JoinWith(NonEmpty([c \in DOMAIN rows[r] |-> StripSpace(rows[r][c])]),
                          <<" ">>)])

\* _extract_docx_tables
extract_docx_tables(tables) ==
    JoinWith([t \in DOMAIN tables |-> RowChunks(tables[t])], <<>>)

\* _extract_docx
extract_docx(file, env) ==
    IF ~env.docx THEN [raised |-> "RuntimeError"]
    ELSE LET paragraphs == NonEmpty([i \in DOMAIN file.paragraphs |->
                                        StripSpace(file.paragraphs[i])])
         IN  [returned |->
                 JoinWith(paragraphs \o extract_docx_tables(file.tables), <<"\n">>)]

\* extract_text
extract_text(file, env) ==
    IF ~file.exists THEN [raised |-> "FileNotFoundError"]
    ELSE LET suffix == suffix_lower(file.name)
             text == IF suffix = ".txt" THEN default_text_reader(file)
                     ELSE IF suffix = ".pdf" THEN extract_pdf(file, env)
                     ELSE IF suffix = ".docx" THEN extract_docx(file, env)
                     ELSE [raised |-> "ValueError"]
         IN  IF "raised" \in DOMAIN text THEN text
             ELSE [returned |-> post_process(text.returned)]

FileTexts ==
    { <<>>, <<"a">>, <<" ", "a", "\r", "\n", "b", "\n">>, <<"a", "\r", "b">>,
      <<"U+00A0", "a", " ">>, <<" ", "\n">> }

\* what extract_text() of a page gives: None, or a text
PageInputs == {None, Some(<<>>), Some(<<"a", "U+00A0", "b", " ">>), Some(<<"c", "\r", "d">>)}

MaxPages == 2

PagesInputs == UNION {[1..n -> PageInputs] : n \in 0..MaxPages}

ParagraphsInputs == {<<>>, << <<"a">> >>, << <<" ", "a", " ">>, <<" ">>, <<"b">> >>}

\* tables, each its rows, each row its cells
TablesInputs ==
    { <<>>,
      << << << <<"c">>, <<"d", " ">> >> >> >>,
      << << << <<" ">>, <<>> >>, << <<"c">> >> >>, << << <<"d">>, <<>>, <<"e">> >> >> >> }

\* the files a path can name
DocumentInputs ==
    {[name |-> n, exists |-> TRUE, text |-> t] : n \in {"cv.txt", "CV.TXT"}, t \in FileTexts}
    \cup {[name |-> "cv.Pdf", exists |-> TRUE, pages |-> ps] : ps \in PagesInputs}
    \cup {[name |-> "cv.docx", exists |-> TRUE, paragraphs |-> ps, tables |-> ts] :
             ps \in ParagraphsInputs, ts \in TablesInputs}
    \cup {[name |-> n, exists |-> TRUE, text |-> <<"a">>] : n \in {"cv.md", "cv.txt.bak", "cv"}}
    \cup {[name |-> n, exists |-> FALSE] :
             n \in {"cv.txt", "CV.TXT", "cv.Pdf", "cv.docx", "cv.md", "cv.txt.bak", "cv"}}

InitDocument ==
    /\ pc = "document"
    /\ cand = NewCandidate("A")
    /\ docFile \in DocumentInputs
    /\ docEnv \in [pdfplumber : BOOLEAN, docx : BOOLEAN]
    /\ docOutcome = None
    /\ NoScoring /\ NoSkills /\ NoSection /\ NoYears /\ NoEducation /\ NoLoader /\ NoContext /\ NoStages /\ NoValidator /\ NoRetry
    /\ NoExtract /\ NoPipeline /\ NoRequirements /\ NoNormalizer

\* DocumentExtractor().extract_text(path)
ExtractText ==
    /\ pc = "document"
    /\ docOutcome' = extract_text(docFile, docEnv)
    /\ pc' = "document_done"
    /\ UNCHANGED <<cand, docFile, docEnv>>
    /\ UNCHANGED <<scoringVars, skillVars, sectionVars, yearsVars, educationVars, loaderVars, extractVars, pipelineVars, requirementsVars, normalizerVars, contextVars, stageVars, validatorVars, retryVars>>

NextDocument == ExtractText

SpecDocument == InitDocument /\ [][NextDocument]_vars

\* the text of the reader of the file's format: the text of a .txt file; the
\* page texts of a PDF that are not empty, in page order, joined by newline;
\* the paragraphs of a DOCX followed by its table rows, cells joined by a space
C24_ReaderText ==
    LET suffix == suffix_lower(docFile.name)
    IN  IF suffix = ".txt" THEN docFile.text
        ELSE IF suffix = ".pdf"
        THEN JoinWith(NonEmpty([i \in DOMAIN docFile.pages |-> page_text(docFile.pages[i])]),
                      <<"\n">>)
        ELSE JoinWith(NonEmpty([i \in DOMAIN docFile.paragraphs |->
                                   StripSpace(docFile.paragraphs[i])])
                      \o extract_docx_tables(docFile.tables), <<"\n">>)

\* the reader's text with line endings normalized to \n and the surrounding
\* white space stripped
C24_Cleaned == StripSpace(ReplaceLineEndings(C24_ReaderText))

\* the package the reader of the file's format imports is missing
C24_ReaderUnavailable ==
    \/ suffix_lower(docFile.name) = ".pdf" /\ ~docEnv.pdfplumber
    \/ suffix_lower(docFile.name) = ".docx" /\ ~docEnv.docx

\* C24 as stated: a path that does not exist raises a not-found error, an
\* existing file of another extension raises a value error, and an existing
\* .txt, .pdf or .docx file returns the cleaned text of its format's reader
C24_ThreeOutcomes ==
    pc = "document_done" =>
        IF ~docFile.exists THEN docOutcome = [raised |-> "FileNotFoundError"]
        ELSE IF suffix_lower(docFile.name) \notin SUPPORTED_EXTENSIONS
        THEN docOutcome = [raised |-> "ValueError"]
        ELSE docOutcome = [returned |-> C24_Cleaned]

\* C24 amended: as stated, except that an existing .pdf or .docx file whose
\* reader cannot import its package raises a runtime error
C24_ThreeOutcomesOrReaderError ==
    pc = "document_done" =>
        IF ~docFile.exists THEN docOutcome = [raised |-> "FileNotFoundError"]
        ELSE IF suffix_lower(docFile.name) \notin SUPPORTED_EXTENSIONS
        THEN docOutcome = [raised |-> "ValueError"]
        ELSE IF C24_ReaderUnavailable THEN docOutcome = [raised |-> "RuntimeError"]
        ELSE docOutcome = [returned |-> C24_Cleaned]

\* a PDF of two pages with text has been read
C24_Witness ==
    /\ pc = "document_done"
    /\ suffix_lower(docFile.name) = ".pdf"
    /\ "returned" \in DOMAIN docOutcome
    /\ \E i \in DOMAIN docOutcome.returned : docOutcome.returned[i] = "\n"

----------------------------------------------------------------------------
(* score_candidate and the weight context of the job *)

\* JobProfile.weights: the default of the dataclass and a mapping that moves
\* weight from hard skills to experience
JobWeightInputs ==
    { [hard_skills |-> Rat(60, 100), soft_skills |-> Rat(20, 100),
       experience |-> Rat(15, 100), education |-> Rat(5, 100)],
      [hard_skills |-> Rat(30, 100), soft_skills |-> Rat(10, 100),
       experience |-> Rat(50, 100), education |-> Rat(10, 100)] }

\* JobProfile.requirements: none, and requirements that name skills of the candidates
JobRequirementInputs ==
    { <<>>,
      <<JobRequirement("python", "required", "hard")>>,
      <<JobRequirement("sql", "required", "hard"),
        JobRequirement("comunicação", "desired", "soft")>> }

JobDescriptionInputs ==
    { <<"Vaga", "Desenvolvedor", "Python">>, <<"Analista", "de", "Dados">> }

\* JobProfile(title, description, requirements, weights)
JobProfile(title, description, requirements, category_weights) ==
    [title |-> title, description |-> description,
     requirements |-> requirements, weights |-> category_weights]

JobProfileInputs ==
    { JobProfile(<<"Vaga">>, d, r, w) :
        d \in JobDescriptionInputs, r \in JobRequirementInputs, w \in JobWeightInputs }

\* two job profiles that differ in nothing but their requirements or their weights
SameJobText(j1, j2) == j1.title = j2.title /\ j1.description = j2.description

InitJobContext ==
    /\ pc = "build"
    /\ weights \in WeightInputs
    /\ job = None
    /\ cand = NewCandidate("A")
    /\ skillsResult = None
    /\ subScore = None
    /\ candidates = <<>>
    /\ ranked = None
    /\ contextScores = None
    /\ NoSkills /\ NoSection /\ NoYears /\ NoEducation /\ NoLoader /\ NoExtract /\ NoPipeline /\ NoRequirements /\ NoNormalizer /\ NoDocument /\ NoStages /\ NoValidator /\ NoRetry

\* score_candidate(copy of the candidate, j) for every job profile j
ScoreUnderEachJob ==
    /\ pc = "build"
    /\ contextScores' =
          Some([j \in JobProfileInputs |-> score_candidate(weights, cand, Some(j)).score])
    /\ pc' = "contexts_scored"
    /\ UNCHANGED <<cand, weights, job, skillsResult, subScore, candidates, ranked>>
    /\ UNCHANGED <<skillVars, sectionVars, yearsVars, educationVars, loaderVars, extractVars, pipelineVars, requirementsVars, normalizerVars, documentVars, stageVars, validatorVars, retryVars>>

NextJobContext ==
    \/ \E skill \in SkillInputs : AddSkill(skill)
    \/ \E e \in ExperienceInputs : AddExperience(e)
    \/ \E e \in EducationInputs : AddEducation(e)
    \/ ScoreUnderEachJob

SpecJobContext == InitJobContext /\ [][NextJobContext]_vars

\* the candidate has something for every category weight to act on
HasAllCategories ==
    /\ cand.hard_skills # <<>> /\ cand.soft_skills # <<>>
    /\ cand.experiences # <<>> /\ cand.education # <<>>

\* C25: for a fixed candidate and engine configuration, the score computed by
\* score_candidate depends on the requirements and the category weights of the
\* JobProfile: among job profiles that differ only in their requirements or their
\* weights mapping, two give the candidate different scores.
C25_ScoreDependsOnJobContext ==
    (pc = "contexts_scored" /\ HasAllCategories) =>
        \E j1, j2 \in JobProfileInputs :
            /\ SameJobText(j1, j2)
            /\ j1.requirements # j2.requirements \/ j1.weights # j2.weights
            /\ Get(contextScores)[j1] # Get(contextScores)[j2]

\* what the scoring engine does instead: job profiles with the same text give
\* every candidate the same score, whatever their requirements and weights
ScoreIgnoresJobContext ==
    pc = "contexts_scored" =>
        \A j1, j2 \in JobProfileInputs :
            SameJobText(j1, j2) => Get(contextScores)[j1] = Get(contextScores)[j2]

\* the job text does reach the score, through the relevance bonus of the experience
ScoreIgnoresJobText ==
    pc = "contexts_scored" =>
        \A j1, j2 \in JobProfileInputs :
            Get(contextScores)[j1] = Get(contextScores)[j2]

----------------------------------------------------------------------------
(* The stages that write to a candidate: skills, scores, explanation *)

\* the exponent e of the float closest to n/100: 2^e <= n/100 < 2^(e+1)
RECURSIVE FloatExponent(_, _)
FloatExponent(n, e) ==
    IF e >= 0
    THEN IF n < 100 * (2 ^ e) THEN FloatExponent(n, e - 1)
         ELSE IF n >= 200 * (2 ^ e) THEN FloatExponent(n, e + 1) ELSE e
    ELSE IF n * (2 ^ (0 - e)) < 100 THEN FloatExponent(n, e - 1) ELSE e

\* 2^m modulo 25
RECURSIVE Pow2Mod25(_)
Pow2Mod25(m) == IF m = 0 THEN 1 ELSE (2 * Pow2Mod25(m - 1)) % 25

\* where the float closest to n/100 lies: its 53-bit mantissa is n * 2^(50-e) / 25
\* rounded to an integer, so the remainder of that division tells whether the
\* float is the number itself ("exact"), or lies "below" or "above" it
FloatSide(n) ==
    LET e == FloatExponent(n, 0)
        r == ((n % 25) * Pow2Mod25(50 - e)) % 25
    IN  IF r = 0 THEN "exact" ELSE IF 2 * r < 25 THEN "below" ELSE "above"

\* f"{x:.1f}" of a float that holds a number of two decimals: a number that ends
\* in 5 is formatted by the side of it on which its float lies
format_1f(x) ==
    LET n == (x.n * 100) \div x.d
    IN  IF (x.n * 100) % x.d # 0 \/ n % 10 # 5 \/ FloatSide(n) = "exact"
        THEN round(x, 1)
        ELSE IF FloatSide(n) = "below" THEN Rat(n \div 10, 10)
        ELSE Rat((n \div 10) + 1, 10)

\* _recommendation_label
recommendation_label(score) ==
    IF RLe(RInt(7), score) THEN "Fortemente recomendado"
    ELSE IF RLe(Rat(65, 10), score) THEN "Recomendado"
    ELSE IF RLe(Rat(45, 10), score) THEN "Recomendado com ressalvas"
    ELSE "Não recomendado"

\* _extract_score_breakdown
extract_score_breakdown(c) ==
    LET breakdown == c.score_breakdown
    IN  [hard_score |-> DictGet(breakdown, "hard_skills", RInt(0)),
         soft_score |-> DictGet(breakdown, "soft_skills", RInt(0)),
         exp_score |-> DictGet(breakdown, "experience", RInt(0)),
         edu_score |-> DictGet(breakdown, "education", RInt(0)),
         hard_detail |-> DictGet(breakdown, "hard_skills_detail", <<>>)]

\* the paragraphs _fallback_explanation joins, each with the values it formats
explanation_parts(c, position) ==
    LET sb == extract_score_breakdown(c)
        hard_count == Len(c.hard_skills)
        soft_count == Len(c.soft_skills)
    IN  << [text |-> "obteve pontos", name |-> c.name, position |-> position,
            score |-> format_1f(c.score)],
           [text |-> IF RLt(RInt(3), sb.hard_score) THEN "forte perfil técnico"
                     ELSE IF RLt(RInt(2), sb.hard_score) THEN "Perfil técnico adequado"
                     ELSE "Perfil técnico limitado",
            hard_count |-> hard_count, hard_score |-> format_1f(sb.hard_score)],
           IF soft_count > 0
           THEN [text |-> "Identificadas soft skills", soft_count |-> soft_count,
                 soft_score |-> format_1f(sb.soft_score)]
           ELSE [text |-> "Não foram identificadas soft skills"],
           [text |-> "Recomendação", label |-> recommendation_label(c.score)] >>

\* _fallback_explanation: the candidate with the explanation stored
fallback_explanation(c, position) ==
    [c EXCEPT !.explanation =
        Some([source |-> "fallback", parts |-> explanation_parts(c, position)])]

\* {s.name for s in skills}
SkillNames(skills) == {skills[i].name : i \in DOMAIN skills}

\* _build_explanation_prompt: the values the prompt is built from
build_explanation_prompt(c, j, position) ==
    LET sb == extract_score_breakdown(c)
    IN  [title |-> j.title, description |-> j.description,
         name |-> c.name, position |-> position, score |-> format_1f(c.score),
         hard_skills |-> SkillNames(c.hard_skills),
         soft_skills |-> SkillNames(c.soft_skills),
         hard_score |-> format_1f(sb.hard_score), soft_score |-> format_1f(sb.soft_score),
         exp_score |-> format_1f(sb.exp_score), edu_score |-> format_1f(sb.edu_score),
         top_skills |-> [k \in DOMAIN sb.hard_detail |-> format_1f(sb.hard_detail[k])]]

\* explain_candidate: the candidate afterwards and the prompts sent to the client
explain_candidate(client, c, j, position) ==
    IF client = None
    THEN [candidate |-> fallback_explanation(c, position), prompts |-> <<>>]
    ELSE
    LET prompt == build_explanation_prompt(c, j, position)
        llm_response == Get(client).call
    IN  IF llm_response.kind = "LLMResponse" /\ llm_response.success
        THEN [candidate |-> [c EXCEPT !.explanation =
                                Some([source |-> "llm",
                                      text |-> StripSpace(llm_response.content)])],
              prompts |-> <<prompt>>]
        ELSE [candidate |-> fallback_explanation(c, position), prompts |-> <<prompt>>]

\* the loop of explain_all_candidates over ranked_candidates[k..], which are the
\* objects of the candidate list at the indices of order
RECURSIVE ExplainFrom(_, _, _, _, _, _)
ExplainFrom(client, list, j, order, k, prompts) ==
    IF k > Len(order) THEN [candidates |-> list, prompts |-> prompts]
    ELSE LET r == explain_candidate(client, list[order[k]], j, Some(k))
         IN  ExplainFrom(client, [list EXCEPT ![order[k]] = r.candidate], j, order,
                         k + 1, prompts \o r.prompts)

\* if not use_llm: self.llm_client = None
client_after(client, use_llm) == IF use_llm THEN client ELSE None

\* sorted(candidates, key=lambda c: c.score, reverse=True), as the indices of the
\* candidates in the list that was sorted
RankOrder(list) ==
    LET keyed == [i \in DOMAIN list |-> [index |-> i, score |-> list[i].score]]
        sorted == SortedByScoreDesc(keyed)
    IN  [i \in DOMAIN sorted |-> sorted[i].index]

MaxStageCalls == 3

StageTextInputs == { <<"Python", "SQL">>, <<"Comunicação", "Python">> }

\* the candidates the loader and the experience and education extractors leave
StageCandidateInputs ==
    { [NewCandidate("A") EXCEPT !.raw_text = <<"Python", "SQL">>,
                                !.experiences = <<Ex("Desenvolvedor")>>,
                                !.education = <<Ed("Bacharelado")>>],
      [NewCandidate("B") EXCEPT !.raw_text = <<"Comunicação", "Python">>] }

StageListInputs ==
    {list \in UNION {[1..n -> StageCandidateInputs] : n \in 1..2} :
        \A i, k \in DOMAIN list : i # k => list[i].name # list[k].name}

\* the clients of the explanation engine and what their call does
StageClientInputs ==
    { None,
      Some([call |-> [kind |-> "raises"]]),
      Some([call |-> [kind |-> "LLMResponse", success |-> FALSE, content |-> <<>>]]),
      Some([call |-> [kind |-> "LLMResponse", success |-> TRUE,
                      content |-> <<" ", "o", "k", "\n">>]]) }

StageJob == JobProfile(<<"Vaga">>, <<"Vaga", "Desenvolvedor", "Python">>, <<>>,
                       [hard_skills |-> Rat(60, 100), soft_skills |-> Rat(20, 100),
                        experience |-> Rat(15, 100), education |-> Rat(5, 100)])

InitStages ==
    /\ pc = "parsed"
    /\ cand = NewCandidate("A")
    /\ candidates \in StageListInputs
    /\ weights \in WeightInputs
    /\ job = Some(StageJob)
    /\ skillsConfig = Some(PipelineSkillsConfig)
    /\ configured_client \in StageClientInputs
    /\ llm_client = configured_client
    /\ llm_calls = <<>>
    /\ ranked = None
    /\ stageCalls = 0
    /\ skillsResult = None /\ subScore = None
    /\ lastCall = None /\ extracted = None
    /\ extractor = None /\ text_variants = None /\ tried = None /\ records = None
    /\ extractOutcome = None
    /\ NoSection /\ NoYears /\ NoEducation /\ NoLoader /\ NoPipeline /\ NoRequirements /\ NoNormalizer /\ NoDocument /\ NoContext /\ NoValidator /\ NoRetry

\* SkillExtractor.extract_from_candidate(candidates[i])
StageExtractSkills(i) ==
    /\ stageCalls < MaxStageCalls
    /\ candidates' = [candidates EXCEPT ![i] = extract_from_candidate(Get(skillsConfig), @)]
    /\ pc' = "skills_extracted"
    /\ stageCalls' = stageCalls + 1
    /\ UNCHANGED <<cand, weights, job, ranked, skillsResult, subScore, skillVars, extractVars, configured_client>>
    /\ UNCHANGED <<sectionVars, yearsVars, educationVars, loaderVars, pipelineVars, requirementsVars, normalizerVars, documentVars, contextVars, validatorVars, retryVars>>

\* ScoringEngine.score_candidate(candidates[i], job)
StageScoreCandidate(i) ==
    /\ stageCalls < MaxStageCalls
    /\ candidates' = [candidates EXCEPT ![i] = score_candidate(weights, @, job)]
    /\ pc' = "scored"
    /\ stageCalls' = stageCalls + 1
    /\ UNCHANGED <<cand, weights, job, ranked, skillsResult, subScore, skillVars, extractVars, configured_client>>
    /\ UNCHANGED <<sectionVars, yearsVars, educationVars, loaderVars, pipelineVars, requirementsVars, normalizerVars, documentVars, contextVars, validatorVars, retryVars>>

\* ranked = ScoringEngine.rank_candidates(candidates, job)
StageRankCandidates ==
    /\ stageCalls < MaxStageCalls
    /\ candidates' = ScoreAll(weights, candidates, job)
    /\ ranked' = Some(RankOrder(candidates'))
    /\ pc' = "ranked"
    /\ stageCalls' = stageCalls + 1
    /\ UNCHANGED <<cand, weights, job, skillsResult, subScore, skillVars, extractVars, configured_client>>
    /\ UNCHANGED <<sectionVars, yearsVars, educationVars, loaderVars, pipelineVars, requirementsVars, normalizerVars, documentVars, contextVars, validatorVars, retryVars>>

\* ExplainabilityEngine.explain_candidate(candidates[i], job, position)
StageExplainCandidate(i, position) ==
    /\ stageCalls < MaxStageCalls
    /\ LET r == explain_candidate(llm_client, candidates[i], Get(job), position)
       IN  /\ candidates' = [candidates EXCEPT ![i] = r.candidate]
           /\ llm_calls' = llm_calls \o r.prompts
    /\ pc' = "explained"
    /\ stageCalls' = stageCalls + 1
    /\ UNCHANGED <<cand, weights, job, ranked, skillsResult, subScore, skillVars, configured_client>>
    /\ UNCHANGED <<extractor, llm_client, text_variants, tried, records, extractOutcome>>
    /\ UNCHANGED <<sectionVars, yearsVars, educationVars, loaderVars, pipelineVars, requirementsVars, normalizerVars, documentVars, contextVars, validatorVars, retryVars>>

\* ExplainabilityEngine.explain_all_candidates(analysis_result, use_llm=use_llm) on
\* the result that holds the ranked candidates and the job
StageExplainAllCandidates(use_llm) ==
    /\ stageCalls < MaxStageCalls
    /\ ranked # None
    /\ llm_client' = client_after(llm_client, use_llm)
    /\ LET r == ExplainFrom(llm_client', candidates, Get(job), Get(ranked), 1, <<>>)
       IN  /\ candidates' = r.candidates
           /\ llm_calls' = llm_calls \o r.prompts
    /\ pc' = IF use_llm THEN "explained_all_llm" ELSE "explained_all_fallback"
    /\ stageCalls' = stageCalls + 1
    /\ UNCHANGED <<cand, weights, job, ranked, skillsResult, subScore, skillVars, configured_client>>
    /\ UNCHANGED <<extractor, text_variants, tried, records, extractOutcome>>
    /\ UNCHANGED <<sectionVars, yearsVars, educationVars, loaderVars, pipelineVars, requirementsVars, normalizerVars, documentVars, contextVars, validatorVars, retryVars>>

NextStages ==
    \/ \E i \in DOMAIN candidates : StageExtractSkills(i)
    \/ \E i \in DOMAIN candidates : StageScoreCandidate(i)
    \/ StageRankCandidates
    \/ \E i \in DOMAIN candidates : \E position \in {None, Some(i)} :
            StageExplainCandidate(i, position)
    \/ \E use_llm \in BOOLEAN : StageExplainAllCandidates(use_llm)

SpecStages == InitStages /\ [][NextStages]_vars

\* the candidates of the list are the same objects in the same order, and no
\* field outside fields differs
OnlyFieldsChanged(fields) ==
    /\ Len(candidates') = Len(candidates)
    /\ \A i \in DOMAIN candidates :
          /\ DOMAIN candidates'[i] = DOMAIN candidates[i]
          /\ \A f \in DOMAIN candidates[i] \ fields :
                candidates'[i][f] = candidates[i][f]

\* C26: each stage writes only its own candidate fields, in any order and number
\* of calls: extract_from_candidate only hard_skills and soft_skills;
\* score_candidate and rank_candidates only score and score_breakdown, leaving the
\* order of the input list and the job alone; explain_candidate (alone or in the
\* loop of explain_all_candidates) only explanation, leaving the ranking alone.
C26_StagesWriteOnlyTheirFields ==
    [][ /\ pc' = "skills_extracted" =>
              OnlyFieldsChanged({"hard_skills", "soft_skills"})
        /\ pc' \in {"scored", "ranked"} =>
              OnlyFieldsChanged({"score", "score_breakdown"}) /\ job' = job
        /\ pc' \in {"explained", "explained_all_llm", "explained_all_fallback"} =>
              OnlyFieldsChanged({"explanation"}) /\ ranked' = ranked ]_vars

\* every stage has written: a candidate holds skills, a score and an explanation
\* that was written after the ranking
C26_Witness ==
    /\ pc \in {"explained", "explained_all_llm", "explained_all_fallback"}
    /\ ranked # None
    /\ \E i \in DOMAIN candidates :
          /\ candidates[i].hard_skills # <<>>
          /\ candidates[i].score_breakdown # <<>>
          /\ RLt(RInt(0), candidates[i].score)
          /\ candidates[i].explanation # None

\* C29: explain_all_candidates(use_llm=False) leaves the configured llm_client of
\* the engine as it was, and a later explain_all_candidates(use_llm=True) on an
\* engine constructed with a client still sends one prompt per ranked candidate.
C29_UseLlmFalseKeepsClient ==
    [][ /\ pc' = "explained_all_fallback" => llm_client' = llm_client
        /\ (pc' = "explained_all_llm" /\ configured_client # None) =>
              Len(llm_calls') = Len(llm_calls) + Len(Get(ranked)) ]_vars

----------------------------------------------------------------------------
(* CandidateValidator: validation and the decision to fall back to the LLM *)

MIN_TEXT_LENGTH == 100
MAX_TEXT_LENGTH == 50000
MIN_SKILLS == 2

\* a formatted message: the text before the parenthesis and the number in it;
\* a message without a number is the text alone
Message(txt, number) == [text |-> txt, number |-> number]

\* if not exp.role, if not exp.company: None and "" are false
Blank(field) == field = None \/ field = Some(<<>>)

\* _validate_experiences
validate_experiences(experiences) ==
    IF experiences = <<>>
    THEN [warnings |-> <<Message("Nenhuma experiência profissional identificada", None)>>,
          suggestions |-> <<"Verificar se seção de experiência está presente">>,
          confidence_factor |-> Rat(8, 10)]
    ELSE
    LET incomplete_count ==
            Cardinality({i \in DOMAIN experiences : experiences[i].role = <<>>})
            + Cardinality({i \in DOMAIN experiences :
                              Blank(experiences[i].company) /\ Blank(experiences[i].duration)})
        many_incomplete == 2 * incomplete_count > Len(experiences)
        role_lengths == SumOver([i \in DOMAIN experiences |-> TextLen(experiences[i].role)],
                                DOMAIN experiences)
        short_roles == role_lengths < 10 * Len(experiences)
        factor == IF many_incomplete THEN Rat(9, 10) ELSE RInt(1)
    IN  [warnings |->
            (IF many_incomplete
             THEN <<Message("experiências com dados incompletos", Some(incomplete_count))>>
             ELSE <<>>)
            \o (IF short_roles
                THEN <<Message("Cargos identificados são muito curtos", None)>> ELSE <<>>),
         suggestions |->
            IF short_roles THEN <<"Considerar usar LLM para melhor extração">> ELSE <<>>,
         confidence_factor |-> IF short_roles THEN RMul(factor, Rat(9, 10)) ELSE factor]

\* _validate_education
validate_education(education) ==
    IF education = <<>>
    THEN [warnings |-> <<Message("Nenhuma formação acadêmica identificada", None)>>,
          suggestions |-> <<"Verificar se seção de formação está presente">>,
          confidence_factor |-> Rat(85, 100)]
    ELSE
    LET incomplete_count ==
            Cardinality({i \in DOMAIN education : education[i].degree = <<>>})
            + Cardinality({i \in DOMAIN education : TextLen(education[i].degree) < 5})
    IN  [warnings |->
            IF incomplete_count > 0
            THEN <<Message("formações com dados incompletos", Some(incomplete_count))>>
            ELSE <<>>,
         suggestions |-> <<>>,
         confidence_factor |-> IF incomplete_count > 0 THEN Rat(92, 100) ELSE RInt(1)]

\* round(x, 2) of a float product: a product that lies halfway between two values
\* of two decimals is held by a float on one side of it or the other
round_of_product(x) ==
    LET m == x.n * 100
        q == m \div x.d
    IN  IF 2 * (m % x.d) = x.d THEN {Rat(q, 100), Rat(q + 1, 100)} ELSE {round(x, 2)}

\* validate_candidate, section by section: each section gives its errors, warnings
\* and suggestions and the factor it multiplies the confidence by; the results it
\* can return
validate_candidate(c) ==
    LET text_length == c.raw_text.length
        text_section ==
            IF text_length < MIN_TEXT_LENGTH
            THEN [errors |-> <<Message("Currículo muito curto", Some(text_length))>>,
                  warnings |-> <<>>, suggestions |-> <<>>, factor |-> Rat(3, 10)]
            ELSE IF text_length > MAX_TEXT_LENGTH
            THEN [errors |-> <<>>,
                  warnings |-> <<Message("Currículo muito longo", Some(text_length))>>,
                  suggestions |-> <<>>, factor |-> Rat(9, 10)]
            ELSE [errors |-> <<>>, warnings |-> <<>>, suggestions |-> <<>>,
                  factor |-> RInt(1)]
        name_section ==
            IF c.name = <<>> \/ c.name[1] = "Candidato"
            THEN [warnings |-> <<Message("Nome do candidato não identificado", None)>>,
                  factor |-> Rat(95, 100)]
            ELSE [warnings |-> <<>>, factor |-> RInt(1)]
        total_skills == Len(c.hard_skills) + Len(c.soft_skills)
        skills_section ==
            IF total_skills < MIN_SKILLS
            THEN [errors |-> <<Message("Poucas skills identificadas", Some(total_skills))>>,
                  suggestions |-> <<"Considerar usar LLM para extração de skills">>,
                  factor |-> Rat(5, 10)]
            ELSE IF total_skills = 0
            THEN [errors |-> <<Message("Nenhuma skill identificada", None)>>,
                  suggestions |-> <<>>, factor |-> Rat(2, 10)]
            ELSE [errors |-> <<>>, suggestions |-> <<>>, factor |-> RInt(1)]
        exp_result == validate_experiences(c.experiences)
        edu_result == validate_education(c.education)
        contact_section ==
            IF Blank(c.email) /\ Blank(c.contact)
            THEN [warnings |-> <<Message("Informações de contato não encontradas", None)>>,
                  factor |-> Rat(95, 100)]
            ELSE [warnings |-> <<>>, factor |-> RInt(1)]
        confidence ==
            RMul(RMul(RMul(RMul(RMul(text_section.factor, name_section.factor),
                                skills_section.factor),
                           exp_result.confidence_factor),
                      edu_result.confidence_factor),
                 contact_section.factor)
        errors == text_section.errors \o skills_section.errors
    IN  {[is_valid |-> errors = <<>> /\ RLt(Rat(3, 10), confidence),
          confidence_score |-> score,
          warnings |-> text_section.warnings \o name_section.warnings
                       \o exp_result.warnings \o edu_result.warnings
                       \o contact_section.warnings,
          errors |-> errors,
          suggestions |-> skills_section.suggestions \o exp_result.suggestions
                          \o edu_result.suggestions] :
         score \in round_of_product(confidence)}

\* critical_errors
critical_errors ==
    <<Message("Nenhuma skill identificada", None), Message("Currículo muito curto", None)>>

\* "LLM" in s or "llm" in s
MentionsLLM(s) ==
    s \in {"Considerar usar LLM para extração de skills",
           "Considerar usar LLM para melhor extração"}

\* should_use_llm_fallback
should_use_llm_fallback(v) ==
    IF RLt(v.confidence_score, Rat(5, 10)) THEN TRUE
    ELSE IF \E k \in DOMAIN critical_errors : \E i \in DOMAIN v.errors :
                v.errors[i] = critical_errors[k]
    THEN TRUE
    ELSE Cardinality({i \in DOMAIN v.suggestions : MentionsLLM(v.suggestions[i])}) >= 2

MaxValidatedExperiences == 2
MaxValidatedEducation == 1

ValidatedNameInputs == { <<>>, <<"Candidato", "1">>, <<"Maria", "Silva">> }

\* a resume text of that many characters
ValidatedTextInputs ==
    {[length |-> n] : n \in {MIN_TEXT_LENGTH - 1, MIN_TEXT_LENGTH,
                             MAX_TEXT_LENGTH, MAX_TEXT_LENGTH + 1}}

ValidatedSkillInputs ==
    { [hard |-> <<>>, soft |-> <<>>],
      [hard |-> <<Sk("Python")>>, soft |-> <<>>],
      [hard |-> <<Sk("Python")>>, soft |-> <<Sk("liderança")>>],
      [hard |-> <<Sk("Python"), Sk("SQL")>>, soft |-> <<Sk("liderança")>>] }

ValidatedExperienceInputs ==
    { [role |-> <<"Desenvolvedor", "Backend">>, company |-> Some(<<"Acme">>),
       duration |-> Some(<<"2019", "-", "2021">>)],
      [role |-> <<"Analista">>, company |-> None, duration |-> None],
      [role |-> <<>>, company |-> Some(<<>>), duration |-> Some(<<"2019">>)] }

ValidatedEducationInputs ==
    { [degree |-> <<"Bacharelado">>, status |-> "completed"],
      [degree |-> <<"SQL">>, status |-> "completed"],
      [degree |-> <<>>, status |-> "unknown"] }

InitValidate ==
    /\ pc = "parsed"
    /\ \E nm \in ValidatedNameInputs, txt \in ValidatedTextInputs,
          sk \in ValidatedSkillInputs,
          ex \in UNION {[1..n -> ValidatedExperienceInputs] :
                            n \in 0..MaxValidatedExperiences},
          ed \in UNION {[1..n -> ValidatedEducationInputs] :
                            n \in 0..MaxValidatedEducation},
          mail \in {None, Some(<<"maria@acme.com">>)},
          phone \in {None, Some(<<"99999-0000">>)} :
            cand = [NewCandidate(nm) EXCEPT
                       !.raw_text = txt, !.hard_skills = sk.hard, !.soft_skills = sk.soft,
                       !.experiences = ex, !.education = ed,
                       !.email = mail, !.contact = phone]
    /\ validation = None
    /\ use_fallback = None
    /\ NoScoring /\ NoSkills /\ NoSection /\ NoYears /\ NoEducation /\ NoLoader /\ NoExtract /\ NoPipeline /\ NoRequirements /\ NoNormalizer /\ NoDocument /\ NoContext /\ NoStages /\ NoRetry

\* validation = CandidateValidator().validate_candidate(candidate)
ValidateCandidate ==
    /\ pc = "parsed"
    /\ \E result \in validate_candidate(cand) : validation' = Some(result)
    /\ pc' = "validated"
    /\ UNCHANGED <<cand, use_fallback>>
    /\ UNCHANGED <<scoringVars, skillVars, sectionVars, yearsVars, educationVars, loaderVars, extractVars, pipelineVars, requirementsVars, normalizerVars, documentVars, contextVars, stageVars, retryVars>>

\* CandidateValidator().should_use_llm_fallback(validation)
ShouldUseLlmFallback ==
    /\ pc = "validated"
    /\ use_fallback' = Some(should_use_llm_fallback(Get(validation)))
    /\ pc' = "decided"
    /\ UNCHANGED <<cand, validation>>
    /\ UNCHANGED <<scoringVars, skillVars, sectionVars, yearsVars, educationVars, loaderVars, extractVars, pipelineVars, requirementsVars, normalizerVars, documentVars, contextVars, stageVars, retryVars>>

NextValidate == ValidateCandidate \/ ShouldUseLlmFallback

SpecValidate == InitValidate /\ [][NextValidate]_vars

\* the candidate has no skill identified, or a text shorter than the minimum
C27_CriticalError ==
    \/ Len(cand.hard_skills) + Len(cand.soft_skills) = 0
    \/ cand.raw_text.length < MIN_TEXT_LENGTH

\* C27: should_use_llm_fallback returns true for the result of validate_candidate
\* whenever the candidate has no skill identified or a text shorter than the
\* minimum length, whatever its name, contact, experience and education; and
\* whenever the confidence score is below 0.5 or two suggestions mention the LLM.
C27_FallbackOnCriticalError ==
    pc = "decided" =>
        LET v == Get(validation)
        IN  ( \/ C27_CriticalError
              \/ RLt(v.confidence_score, Rat(5, 10))
              \/ Cardinality({i \in DOMAIN v.suggestions :
                                 MentionsLLM(v.suggestions[i])}) >= 2 )
            => Get(use_fallback) = TRUE

\* the part of it that needs no critical error
FallbackOnLowConfidenceOrSuggestions ==
    pc = "decided" =>
        LET v == Get(validation)
        IN  ( \/ RLt(v.confidence_score, Rat(5, 10))
              \/ Cardinality({i \in DOMAIN v.suggestions :
                                 MentionsLLM(v.suggestions[i])}) >= 2
              \/ cand.raw_text.length < MIN_TEXT_LENGTH )
            => Get(use_fallback) = TRUE

----------------------------------------------------------------------------
(* retry_on_failure: the wrapper around a function that can raise *)

MaxRetries == 3

\* how one invocation of the wrapped function can end: with a result, or with an
\* exception of a class that `except Exception` catches
InvocationOutcomes(k) ==
    { [returned |-> "result"] }
    \cup {[raised |-> [type |-> t, invocation |-> k]] : t \in {"ValueError", "TimeoutError"}}

\* a loop that sleeps after every failure
sleeps_after_every_failure(k, n) == TRUE

\* if attempt < max_retries - 1
sleeps_before_retry(k, n) == k < n - 1

RECURSIVE RPow(_, _)
RPow(b, k) == IF k = 0 THEN RInt(1) ELSE RMul(b, RPow(b, k - 1))

InitRetry ==
    /\ pc = "loop"
    /\ cand = NewCandidate("A")
    /\ max_retries \in 0..MaxRetries
    /\ delay \in {RInt(0), Rat(1, 2), RInt(1)}
    /\ backoff \in {RInt(1), Rat(3, 2), RInt(2)}
    /\ attempt = 0
    /\ current_delay = delay
    /\ last_exception = None
    /\ invocations = <<>>
    /\ sleeps = <<>>
    /\ retryOutcome = None
    /\ NoScoring /\ NoSkills /\ NoSection /\ NoYears /\ NoEducation /\ NoLoader /\ NoExtract /\ NoPipeline /\ NoRequirements /\ NoNormalizer /\ NoDocument /\ NoContext /\ NoStages /\ NoValidator

\* one pass of `for attempt in range(max_retries)`: return func(*args, **kwargs),
\* or the exception it raises is caught
Invoke ==
    /\ pc = "loop"
    /\ attempt < max_retries
    /\ \E outcome \in InvocationOutcomes(Len(invocations) + 1) :
          /\ invocations' = Append(invocations, outcome)
          /\ IF "raised" \in DOMAIN outcome
             THEN /\ last_exception' = Some(outcome.raised)
                  /\ pc' = "except"
                  /\ UNCHANGED retryOutcome
             ELSE /\ retryOutcome' = Some(outcome)
                  /\ pc' = "retry_returned"
                  /\ UNCHANGED last_exception
    /\ UNCHANGED <<cand, max_retries, delay, backoff, attempt, current_delay, sleeps>>
    /\ UNCHANGED <<scoringVars, skillVars, sectionVars, yearsVars, educationVars, loaderVars, extractVars, pipelineVars, requirementsVars, normalizerVars, documentVars, contextVars, stageVars, validatorVars>>

\* the rest of the except block: the sleep and the longer delay before another
\* attempt, then the next value of the loop variable
HandleFailure ==
    /\ pc = "except"
    /\ IF sleeps_before_retry(attempt, max_retries)
       THEN /\ sleeps' = Append(sleeps, current_delay)
            /\ current_delay' = RMul(current_delay, backoff)
       ELSE UNCHANGED <<sleeps, current_delay>>
    /\ attempt' = attempt + 1
    /\ pc' = "loop"
    /\ UNCHANGED <<cand, max_retries, delay, backoff, last_exception, invocations, retryOutcome>>
    /\ UNCHANGED <<scoringVars, skillVars, sectionVars, yearsVars, educationVars, loaderVars, extractVars, pipelineVars, requirementsVars, normalizerVars, documentVars, contextVars, stageVars, validatorVars>>

\* after the loop: raise last_exception if there is one, else return None
LeaveLoop ==
    /\ pc = "loop"
    /\ attempt >= max_retries
    /\ IF last_exception # None
       THEN /\ retryOutcome' = Some([raised |-> Get(last_exception)])
            /\ pc' = "retry_raised"
       ELSE /\ retryOutcome' = Some([returned |-> "None"])
            /\ pc' = "retry_returned"
    /\ UNCHANGED <<cand, max_retries, delay, backoff, attempt, current_delay, last_exception, invocations, sleeps>>
    /\ UNCHANGED <<scoringVars, skillVars, sectionVars, yearsVars, educationVars, loaderVars, extractVars, pipelineVars, requirementsVars, normalizerVars, documentVars, contextVars, stageVars, validatorVars>>

NextRetry == Invoke \/ HandleFailure \/ LeaveLoop

SpecRetry == InitRetry /\ [][NextRetry]_vars

\* the invocations so far that raised
C30_Failures == {k \in DOMAIN invocations : "raised" \in DOMAIN invocations[k]}

\* C30: with max_retries = n >= 1 the wrapped function is invoked at most n times
\* per call; the wrapper returns the result of the first invocation that does not
\* raise and invokes no more after it; if all n invocations raise it raises the
\* exception of the last one; between two consecutive invocations it sleeps
\* exactly once, delay * backoff^(k-1) seconds after the k-th failure, and it
\* never sleeps after the final attempt.
C30_RetryInvokesSleepsAndEnds ==
    max_retries >= 1 =>
        /\ Len(invocations) <= max_retries
        /\ \A k \in DOMAIN invocations : k < Len(invocations) => k \in C30_Failures
        /\ pc = "retry_returned" =>
              /\ Len(invocations) \notin C30_Failures
              /\ Get(retryOutcome) = invocations[Len(invocations)]
        /\ pc = "retry_raised" =>
              /\ C30_Failures = 1..max_retries
              /\ Get(retryOutcome) = invocations[max_retries]
        /\ pc \in {"retry_returned", "retry_raised"} <=> retryOutcome # None
        /\ \A k \in DOMAIN sleeps : sleeps[k] = RMul(delay, RPow(backoff, k - 1))
        /\ Len(sleeps) <= max_retries - 1
        /\ pc = "loop" /\ attempt < max_retries => Len(sleeps) = Len(invocations)
        /\ pc \in {"retry_returned", "retry_raised"} =>
              Len(sleeps) = IF Cardinality(C30_Failures) < max_retries
                            THEN Cardinality(C30_Failures) ELSE max_retries - 1

\* three failures with a growing delay: two sleeps, the last exception raised
C30_Witness ==
    /\ pc = "retry_raised"
    /\ max_retries = 3 /\ delay = Rat(1, 2) /\ backoff = RInt(2)
    /\ sleeps = <<Rat(1, 2), RInt(1)>>
    /\ Get(retryOutcome).raised.invocation = 3

====
